---- MODULE Spec2Model ----
(***************************************************************************)
(* A state-machine model of the DANP protocol engine: the 32-bit header    *)
(* codec, the packet buffer pool, the socket table with its intrusive      *)
(* active list, the stream handshake, the stop-and-wait ARQ, connection    *)
(* reset and the ingress dispatcher.                                       *)
(*                                                                         *)
(* Two drivers are modelled.  The test harness's loopback driver           *)
(* (test/mock_driver.c) re-enters the ingress path synchronously from its  *)
(* tx callback; the queueing drivers (src/driver/danp_lo.c and the radio   *)
(* and zmq drivers) hand a transmitted frame to a receive thread, so a     *)
(* frame is in flight between the tx callback and danp_input.              *)
(***************************************************************************)
EXTENDS Integers, Sequences, FiniteSets, TLC

(***************************************************************************)
(* Program constants.                                                      *)
(***************************************************************************)
DANP_MAX_PACKET_SIZE == 128
DANP_POOL_SIZE == 20
DANP_HEADER_SIZE == 4
DANP_RETRY_LIMIT == 3
DANP_MAX_PORTS == 64
DANP_MAX_SOCKET_COUNT == 20
RX_QUEUE_DEPTH == 10
ACCEPT_QUEUE_DEPTH == 5
DANP_PRIORITY_NORMAL == 0
DANP_PRIORITY_HIGH == 1
DANP_FLAG_NONE == 0
DANP_FLAG_SYN == 1
DANP_FLAG_ACK == 2
DANP_FLAG_RST == 4
\* The receive buffer the tests pass to danp_recv.
RECV_BUF == 32
SEQ_MODULUS == 256
\* The null pointer; slots and pool records are indexed from 0.
NULL == -1
\* The node the tests configure, and the MTU of their loopback interface.
LOCAL_NODE == 50
IFACE_MTU == 128
\* A node reached through a queueing (non-loopback) interface.
REMOTE_NODE == 51

Slots == 0 .. (DANP_MAX_SOCKET_COUNT - 1)
PoolIdx == 0 .. (DANP_POOL_SIZE - 1)

Min(S) == CHOOSE x \in S : \A y \in S : x <= y

(***************************************************************************)
(* Header codec.  The 32-bit header is kept as its four little-endian      *)
(* bytes <<b0, b1, b2, b3>>, the form it has on the wire.                  *)
(*   bits 1-0 flags(SYN,ACK)  7-2 src port  13-8 dst port                  *)
(*   21-14 src node  29-22 dst node  30 priority  31 reset                 *)
(***************************************************************************)
HasFlag(flags, bit) == (flags \div bit) % 2 = 1

\* A pack that masks none of its inputs.
danpPackHeader_no_mask(prio, dst, src, dstPort, srcPort, flags) ==
  << srcPort * 4 + flags,
     dstPort + (src % 4) * 64,
     (src \div 4) + (dst % 4) * 64,
     (dst \div 4) + prio * 64
        + (IF HasFlag(flags, DANP_FLAG_RST) THEN 128 ELSE 0) >>

danpPackHeader(prio, dst, src, dstPort, srcPort, flags) ==
  LET d  == dst % 256
      s  == src % 256
      dp == dstPort % 64
      sp == srcPort % 64
  IN << sp * 4 + (flags % 4),
        dp + (s % 4) * 64,
        (s \div 4) + (d % 4) * 64,
        (d \div 4) + (prio % 2) * 64
           + (IF HasFlag(flags, DANP_FLAG_RST) THEN 128 ELSE 0) >>

\* An unpack that never reads bit 31.
danpUnpackHeader_no_rst(raw) ==
  [ dst      |-> (raw[4] % 64) * 4 + (raw[3] \div 64),
    src      |-> (raw[3] % 64) * 4 + (raw[2] \div 64),
    dst_port |-> raw[2] % 64,
    src_port |-> raw[1] \div 4,
    flags    |-> raw[1] % 4 ]

danpUnpackHeader(raw) ==
  [ dst      |-> (raw[4] % 64) * 4 + (raw[3] \div 64),
    src      |-> (raw[3] % 64) * 4 + (raw[2] \div 64),
    dst_port |-> raw[2] % 64,
    src_port |-> raw[1] \div 4,
    flags    |-> (raw[1] % 4)
                   + (IF raw[4] \div 128 = 1 THEN DANP_FLAG_RST ELSE 0) ]

(***************************************************************************)
(* Buffer pool: the free map of danp_buffer.c.  A record's contents live   *)
(* with whoever holds its index.                                           *)
(***************************************************************************)
\* danp_buffer_get without the mark in the free map.
danp_buffer_get_no_mark(fm) ==
  IF \E i \in PoolIdx : fm[i]
  THEN [fm |-> fm, pkt |-> Min({j \in PoolIdx : fm[j]})]
  ELSE [fm |-> fm, pkt |-> NULL]

danp_buffer_get(fm) ==
  IF \E i \in PoolIdx : fm[i]
  THEN LET i == Min({j \in PoolIdx : fm[j]})
       IN [fm |-> [fm EXCEPT ![i] = FALSE], pkt |-> i]
  ELSE [fm |-> fm, pkt |-> NULL]

\* danp_buffer_free giving nothing back.
danp_buffer_free_leak(fm, pkt) == fm

danp_buffer_free(fm, pkt) ==
  IF pkt = NULL THEN fm
  ELSE IF pkt < 0 \/ pkt >= DANP_POOL_SIZE THEN fm
  ELSE IF fm[pkt] THEN fm
  ELSE [fm EXCEPT ![pkt] = TRUE]

danp_buffer_get_free_count(fm) == Cardinality({i \in PoolIdx : fm[i]})

\* danp_buffer_free_chain: frees cur and the records its next links lead to.
\* nxt holds the next link of each record; n bounds the walk (a chain
\* without a cycle has at most DANP_POOL_SIZE records).
RECURSIVE danp_buffer_free_chain(_, _, _, _)
danp_buffer_free_chain(fm, nxt, cur, n) ==
  IF cur = NULL \/ n = 0 THEN fm
  ELSE danp_buffer_free_chain(danp_buffer_free(fm, cur), nxt, nxt[cur], n - 1)

\* The records free_chain walks over from cur.
RECURSIVE ChainOf(_, _, _)
ChainOf(nxt, cur, n) ==
  IF cur = NULL \/ n = 0 THEN {}
  ELSE {cur} \cup ChainOf(nxt, nxt[cur], n - 1)

\* Following the next links from cur leads back to cur.
OnCycle(nxt, cur) ==
  nxt[cur] # NULL /\ cur \in ChainOf(nxt, nxt[cur], DANP_POOL_SIZE)

(***************************************************************************)
(* Socket records.  A zeroed record is CLOSED/DGRAM (both enumerators 0).  *)
(* The OS queues and the binary signal live in the record; they are kept   *)
(* when a slot is reused.                                                  *)
(***************************************************************************)
ZeroSocket ==
  [ state |-> "CLOSED", type |-> "DGRAM",
    local_port |-> 0, local_node |-> 0, remote_node |-> 0, remote_port |-> 0,
    tx_seq |-> 0, rx_expected_seq |-> 0,
    rx_queue |-> << >>, accept_queue |-> << >>, signal |-> 0,
    next |-> NULL ]

\* The null packet pointer the dispatcher posts to wake a receiver.
NullPkt == [idx |-> NULL, hdr |-> <<0, 0, 0, 0>>, len |-> 0, p0 |-> 0, body |-> 0]

\* osal_message_queue_send with timeout 0: fails when the queue is full.
\* A queue that takes whatever is sent to it.
QueueAlwaysRoom(q, depth) == TRUE

QueueHasRoom(q, depth) == Len(q) < depth
QueueSend(q, item, depth) == IF QueueHasRoom(q, depth) THEN Append(q, item) ELSE q

\* osal_semaphore_give on a binary semaphore (max_count = 1).
SemGive(sig) == 1

\* Ghost bookkeeping kept beside each slot (not program state).
ZeroGhost ==
  [synack |-> FALSE, resync |-> FALSE, port_src |-> "none",
   sent |-> << >>, deliv |-> << >>, acc |-> << >>]

\* F applied to the value of v: v is worked out once, however often F reads
\* it.
With(v, F(_)) == CHOOSE r \in {F(x) : x \in {v}} : TRUE

RECURSIVE Walk(_, _, _)
Walk(sp, cur, n) ==
  IF cur = NULL \/ n = 0 THEN << >>
  ELSE <<cur>> \o Walk(sp, sp[cur].next, n - 1)

\* The slots reached from socket_list, in list order (the walks of the code
\* give up after DANP_MAX_SOCKET_COUNT nodes).
ActiveList(K) == Walk(K.sp, K.sl, DANP_MAX_SOCKET_COUNT)

InList(K, s) == \E i \in 1 .. Len(ActiveList(K)) : ActiveList(K)[i] = s

\* danp_port_in_use with the state test inverted.
danp_port_in_use_inverted(K, port) ==
  LET l == ActiveList(K)
  IN \E i \in 1 .. Len(l) :
        K.sp[l[i]].state = "CLOSED" /\ K.sp[l[i]].local_port = port

danp_port_in_use(K, port) ==
  LET l == ActiveList(K)
  IN \E i \in 1 .. Len(l) :
        K.sp[l[i]].state # "CLOSED" /\ K.sp[l[i]].local_port = port

danp_find_socket(K, local_port, remote_node, remote_port) ==
  LET l == ActiveList(K)
      Exact(c) == /\ c.remote_node = remote_node
                  /\ c.remote_port = remote_port
                  /\ c.state \in {"ESTABLISHED", "SYN_SENT", "SYN_RECEIVED"}
      Wild(c) == \/ c.state = "LISTENING"
                 \/ (c.type = "DGRAM" /\ c.state = "OPEN")
      Hit(i) == /\ K.sp[l[i]].local_port = local_port
                /\ (Exact(K.sp[l[i]]) \/ Wild(K.sp[l[i]]))
  IN IF \E i \in 1 .. Len(l) : Hit(i)
     THEN l[Min({i \in 1 .. Len(l) : Hit(i)})]
     ELSE NULL

\* Takes slot s out of the list the way danp_socket does before reusing it.
SocketUnlinkForReuse(K0, s) ==
  With(K0, LAMBDA K :
    IF K.sl = s THEN [K EXCEPT !.sl = K.sp[s].next]
    ELSE IF \E i \in Slots : K.sp[i].next = s
         THEN LET i == Min({j \in Slots : K.sp[j].next = s})
              IN [K EXCEPT !.sp[i].next = K.sp[s].next]
         ELSE K)

RECURSIVE FreeQueued(_, _)
FreeQueued(fm, q) ==
  IF q = << >> THEN fm
  ELSE FreeQueued(danp_buffer_free(fm, Head(q).idx), Tail(q))

\* danp_socket: returns the state with field ret = the slot, or NULL.
danp_socket(K0, type) ==
  With(K0, LAMBDA K :
    IF ~ \E i \in Slots : K.sp[i].state = "CLOSED" /\ K.sp[i].local_port = 0
    THEN [K EXCEPT !.ret = NULL]
    ELSE
      LET slot == Min({i \in Slots :
                         K.sp[i].state = "CLOSED" /\ K.sp[i].local_port = 0})
      IN With(SocketUnlinkForReuse(K, slot), LAMBDA K1 :
           LET old == K1.sp[slot]
               fresh == [ZeroSocket EXCEPT
                           !.signal = old.signal,
                           !.type = type,
                           !.state = "OPEN",
                           !.local_node = LOCAL_NODE,
                           !.next = K1.sl]
           IN [K1 EXCEPT !.sp[slot] = fresh,
                         !.fm = FreeQueued(K1.fm, old.rx_queue),
                         !.sl = slot,
                         !.gh[slot] = [ZeroGhost EXCEPT !.resync = TRUE],
                         !.ret = slot]))

\* The port the ephemeral search of danp_bind settles on (0: none free), and
\* the value it leaves in next_ephemeral_port.
EphemeralCandidate(K, k) == ((K.nep - 1 + k) % (DANP_MAX_PORTS - 1)) + 1

EphemeralFree(K) ==
  {k \in 0 .. (DANP_MAX_PORTS - 2) : ~ danp_port_in_use(K, EphemeralCandidate(K, k))}

\* danp_bind without the range test on the port.
danp_bind_no_range(K0, s, port) ==
  With(K0, LAMBDA K :
    LET found == port = 0 /\ EphemeralFree(K) # {}
        eport == IF found THEN EphemeralCandidate(K, Min(EphemeralFree(K)))
                 ELSE 0
        nep1 == IF found
                THEN (IF eport + 1 >= DANP_MAX_PORTS THEN 1 ELSE eport + 1)
                ELSE K.nep
        p == IF port = 0 THEN eport ELSE port
        K1 == [K EXCEPT !.nep = nep1]
    IN IF p = 0 THEN [K1 EXCEPT !.ret = -1]
       ELSE IF danp_port_in_use(K1, p) THEN [K1 EXCEPT !.ret = -1]
       ELSE [K1 EXCEPT !.sp[s].local_port = p,
                       !.gh[s].port_src = IF K.sp[s].state = "CLOSED"
                                          THEN "bind_closed" ELSE "bind",
                       !.ret = 0])

danp_bind(K0, s, port) ==
  With(K0, LAMBDA K :
    LET found == port = 0 /\ EphemeralFree(K) # {}
        eport == IF found THEN EphemeralCandidate(K, Min(EphemeralFree(K)))
                 ELSE 0
        nep1 == IF found
                THEN (IF eport + 1 >= DANP_MAX_PORTS THEN 1 ELSE eport + 1)
                ELSE K.nep
        p == IF port = 0 THEN eport ELSE port
        K1 == [K EXCEPT !.nep = nep1]
    IN IF p = 0 THEN [K1 EXCEPT !.ret = -1]
       ELSE IF p >= DANP_MAX_PORTS THEN [K1 EXCEPT !.ret = -1]
       ELSE IF danp_port_in_use(K1, p) THEN [K1 EXCEPT !.ret = -1]
       ELSE [K1 EXCEPT !.sp[s].local_port = p,
                       !.gh[s].port_src = IF K.sp[s].state = "CLOSED"
                                          THEN "bind_closed" ELSE "bind",
                       !.ret = 0])

danp_listen(K, s) == [K EXCEPT !.sp[s].state = "LISTENING", !.ret = 0]

\* The wire classes of a frame, for the transmit log.
FrameKind(f) ==
  LET fl == danpUnpackHeader(f.hdr).flags
  IN IF fl = DANP_FLAG_RST THEN "RST"
     ELSE IF fl = DANP_FLAG_SYN THEN "SYN"
     ELSE IF fl = DANP_FLAG_SYN + DANP_FLAG_ACK THEN "SYNACK"
     ELSE IF fl = DANP_FLAG_ACK THEN "ACK"
     ELSE IF fl = DANP_FLAG_NONE THEN "DATA"
     ELSE "OTHER"

(***************************************************************************)
(* Transmit path and ingress dispatcher.  They call one another: a control *)
(* frame sent from the dispatcher over the loopback driver re-enters the   *)
(* dispatcher before danp_send_control returns.                            *)
(***************************************************************************)
VARIABLES
  socket_pool,          \* the socket table
  socket_list,          \* head of the active list
  next_ephemeral_port,
  packet_free_map,      \* the pool's free map
  link,                 \* frames in flight on the queueing loopback
  txlog,                \* classes of the frames handed to tx callbacks
                        \* since the latest call began (ghost)
  ghost,                \* per-slot bookkeeping (ghost)
  sync,                 \* TRUE: the loopback tx callback re-enters danp_input
  thr,                  \* the application threads and the calls they are in
  held,                 \* slot -> thread holding it as a handle (0: none,
                        \* -t: thread t closed it and still has the pointer)
  app_pkts,             \* pool records the application holds (a set)
  packet_next,          \* the next link of each pool record
  route_table,          \* the routing table: entries in table order
  ctr                   \* counters that bound a run (ghost)

vars == << socket_pool, socket_list, next_ephemeral_port, packet_free_map,
           link, txlog, ghost, sync, thr, held, app_pkts, ctr, packet_next,
           route_table >>

\* The variables of the protocol engine (the ones Commit sets).
kvars == << socket_pool, socket_list, next_ephemeral_port, packet_free_map,
            link, txlog, ghost, sync >>

RECURSIVE danp_route_tx(_, _)
RECURSIVE danpInput(_, _)
RECURSIVE danp_socket_input_handler(_, _)
RECURSIVE danp_send_control(_, _, _, _)

\* The frames in flight wait in the queueing loopback's message queue, first
\* in first out.
EmptyLink == << >>
LinkAdd(l, f) == Append(l, f)
LinkRemove(l, i) == [j \in 1..(Len(l) - 1) |-> IF j < i THEN l[j] ELSE l[j + 1]]

\* The loopback interface's tx callback (synchronous), or the queueing
\* interface's (the frame goes in flight).
mock_loopback_tx(K0, frame) ==
  With([K0 EXCEPT !.txlog = Append(@, FrameKind(frame))], LAMBDA K :
    IF K.sync THEN danpInput(K, frame)
    ELSE [K EXCEPT !.link = LinkAdd(@, frame)])

\* The interface of the far node: its frames leave the model.
wire_tx(K, frame) == [K EXCEPT !.txlog = Append(@, FrameKind(frame))]

\* The routing table of the tests: the local node is routed to the loopback
\* interface, the far node to the wire; nothing else is routed.
TestRoutes ==
  << [dest_node |-> LOCAL_NODE, iface |-> "loopback"],
     [dest_node |-> REMOTE_NODE, iface |-> "wire"] >>

\* The interface of the first entry of table rt for dest ("none": no entry).
RouteFind(rt, dest) ==
  IF \E i \in DOMAIN rt : rt[i].dest_node = dest
  THEN rt[Min({i \in DOMAIN rt : rt[i].dest_node = dest})].iface
  ELSE "none"

\* The socket layer runs with the routing table of the tests loaded.
danp_route_lookup(K, dest) == RouteFind(TestRoutes, dest)

danp_route_tx(K, frame) ==
  LET h == danpUnpackHeader(frame.hdr)
      out == danp_route_lookup(K, h.dst)
  IN IF out = "none" THEN K
     ELSE IF frame.len + DANP_HEADER_SIZE > IFACE_MTU THEN K
     ELSE IF out = "loopback" THEN mock_loopback_tx(K, frame)
     ELSE wire_tx(K, frame)

\* An input that hands every frame to the dispatcher, whatever node it is
\* for.
danpInput_any_node(K0, frame) ==
  With(K0, LAMBDA K :
    LET g == danp_buffer_get(K.fm)
        pkt == [idx |-> g.pkt, hdr |-> frame.hdr, len |-> frame.len,
                p0 |-> frame.p0, body |-> frame.body]
    IN IF frame.len < 0 THEN K
       ELSE IF g.pkt = NULL THEN K
       ELSE danp_socket_input_handler([K EXCEPT !.fm = g.fm], pkt))

\* frame.len is the payload length, the frame's length less
\* DANP_HEADER_SIZE: it is negative for a frame shorter than a header.
danpInput(K0, frame) ==
  With(K0, LAMBDA K :
    LET g == danp_buffer_get(K.fm)
        h == danpUnpackHeader(frame.hdr)
        pkt == [idx |-> g.pkt, hdr |-> frame.hdr, len |-> frame.len,
                p0 |-> frame.p0, body |-> frame.body]
    IN IF frame.len < 0 THEN K
       ELSE IF g.pkt = NULL THEN K
       ELSE IF h.dst = LOCAL_NODE
            THEN danp_socket_input_handler([K EXCEPT !.fm = g.fm], pkt)
            ELSE K)

danp_send_control(K0, s, flags, seq_num) ==
  With(K0, LAMBDA K :
    LET g == danp_buffer_get(K.fm)
        sock == K.sp[s]
        isAck == HasFlag(flags, DANP_FLAG_ACK) /\ sock.type = "STREAM"
        frame == [hdr |-> danpPackHeader(0, sock.remote_node, sock.local_node,
                                         sock.remote_port, sock.local_port,
                                         flags),
                  len |-> IF isAck THEN 1 ELSE 0,
                  p0 |-> IF isAck THEN seq_num ELSE 0,
                  body |-> 0]
    IN IF g.pkt = NULL THEN K
       ELSE [danp_route_tx([K EXCEPT !.fm = g.fm], frame) EXCEPT
               !.fm = danp_buffer_free(@, g.pkt)])

\* The dispatcher's RST branch without the wake-up of the receiver.
ResetSocketNoWake(K, s) ==
  IF s # NULL /\ K.sp[s].type = "STREAM"
  THEN [K EXCEPT !.sp[s].state = "CLOSED",
                 !.sp[s].local_port = 0,
                 !.gh[s].port_src = "none"]
  ELSE K

\* The dispatcher's RST branch: a matched stream socket goes CLOSED and a
\* null pointer is posted to its receive queue.
ResetSocket(K, s) ==
  IF s # NULL /\ K.sp[s].type = "STREAM"
  THEN [K EXCEPT !.sp[s].state = "CLOSED",
                 !.sp[s].local_port = 0,
                 !.sp[s].rx_queue = QueueSend(@, NullPkt, RX_QUEUE_DEPTH),
                 !.gh[s].port_src = "none"]
  ELSE K

\* The resync that leaves the queued packets where they are.
ResyncSocketKeepQueue(K, s) ==
  IF K.sp[s].type = "STREAM"
  THEN [K EXCEPT !.sp[s].tx_seq = 0,
                 !.sp[s].rx_expected_seq = 0,
                 !.gh[s].resync = TRUE]
  ELSE K

\* The dispatcher's resync of a connected socket that gets a SYN: a stream
\* socket starts its sequence numbers again and its queued packets go back
\* to the pool.
ResyncSocket(K, s) ==
  IF K.sp[s].type = "STREAM"
  THEN [K EXCEPT !.sp[s].tx_seq = 0,
                 !.sp[s].rx_expected_seq = 0,
                 !.sp[s].rx_queue = << >>,
                 !.fm = FreeQueued(K.fm, K.sp[s].rx_queue),
                 !.gh[s].resync = TRUE]
  ELSE K

danp_socket_input_handler(K0, pkt) ==
  With(K0, LAMBDA K :
  With(danp_find_socket(K, danpUnpackHeader(pkt.hdr).dst_port,
                        danpUnpackHeader(pkt.hdr).src,
                        danpUnpackHeader(pkt.hdr).src_port), LAMBDA s :
  LET h == danpUnpackHeader(pkt.hdr)
      Free(KK) == [KK EXCEPT !.fm = danp_buffer_free(@, pkt.idx)]
      syn == HasFlag(h.flags, DANP_FLAG_SYN)
      ack == HasFlag(h.flags, DANP_FLAG_ACK)
  IN
  IF h.flags = DANP_FLAG_RST THEN Free(ResetSocket(K, s))
  ELSE IF s = NULL THEN Free(K)
  ELSE IF K.sp[s].state \in {"ESTABLISHED", "SYN_RECEIVED"} /\ syn THEN
     LET K2 == danp_send_control(ResyncSocket(K, s), s,
                                 DANP_FLAG_ACK + DANP_FLAG_SYN, 0)
     IN Free([K2 EXCEPT !.sp[s].state = "SYN_RECEIVED"])
  ELSE IF K.sp[s].state = "LISTENING" /\ syn THEN
     With(danp_socket(K, K.sp[s].type), LAMBDA K1 :
     LET child == K1.ret
         K2 == [K1 EXCEPT !.sp[child].local_node = LOCAL_NODE,
                          !.sp[child].local_port = h.dst_port,
                          !.sp[child].remote_node = h.src,
                          !.sp[child].remote_port = h.src_port,
                          !.sp[child].state = "SYN_RECEIVED",
                          !.gh[child].port_src = "spawn"]
     IN IF child = NULL THEN Free(K1)
        ELSE IF ~ QueueHasRoom(K2.sp[s].accept_queue, ACCEPT_QUEUE_DEPTH)
        THEN Free([K2 EXCEPT !.sp[child].state = "CLOSED",
                             !.sp[child].local_port = 0,
                             !.gh[child].port_src = "none"])
        ELSE Free(danp_send_control(
                    [K2 EXCEPT !.sp[s].accept_queue = Append(@, child)],
                    child, DANP_FLAG_ACK + DANP_FLAG_SYN, 0)))
  ELSE IF K.sp[s].state = "SYN_SENT" /\ ack THEN
     LET K1 == [K EXCEPT !.sp[s].state = "ESTABLISHED", !.gh[s].synack = TRUE]
         K2 == danp_send_control(K1, s, DANP_FLAG_ACK, 0)
     IN Free([K2 EXCEPT !.sp[s].signal = SemGive(@)])
  ELSE IF K.sp[s].state = "SYN_RECEIVED" /\ ack /\ ~ syn THEN
     Free([K EXCEPT !.sp[s].state = "ESTABLISHED"])
  ELSE IF ack /\ ~ syn /\ pkt.len = 1 THEN
     Free(IF K.sp[s].type = "STREAM" /\ pkt.p0 = K.sp[s].tx_seq
          THEN [K EXCEPT !.sp[s].signal = SemGive(@)]
          ELSE K)
  ELSE IF /\ \/ K.sp[s].state \in {"ESTABLISHED", "SYN_RECEIVED"}
             \/ (K.sp[s].type = "DGRAM" /\ K.sp[s].state = "OPEN")
          /\ pkt.len > 0 THEN
     IF K.sp[s].type = "DGRAM"
     THEN [K EXCEPT !.sp[s].rx_queue = QueueSend(@, pkt, RX_QUEUE_DEPTH)]
     ELSE
       LET K1 == IF K.sp[s].state = "SYN_RECEIVED"
                 THEN [K EXCEPT !.sp[s].state = "ESTABLISHED"] ELSE K
       IN IF pkt.p0 = K1.sp[s].rx_expected_seq
          THEN LET K2 == [K1 EXCEPT
                            !.sp[s].rx_expected_seq = (@ + 1) % SEQ_MODULUS]
                   K3 == danp_send_control(K2, s, DANP_FLAG_ACK, pkt.p0)
               IN [K3 EXCEPT
                     !.sp[s].rx_queue = QueueSend(@, pkt, RX_QUEUE_DEPTH),
                     !.gh[s].acc =
                        IF QueueHasRoom(K3.sp[s].rx_queue, RX_QUEUE_DEPTH)
                        THEN Append(@, pkt.body) ELSE @]
          ELSE Free(danp_send_control(K1, s, DANP_FLAG_ACK, pkt.p0))
  ELSE Free(K)))

(***************************************************************************)
(* The program state as one value, and back.                               *)
(***************************************************************************)
Kern ==
  [ sp |-> socket_pool, sl |-> socket_list, nep |-> next_ephemeral_port,
    fm |-> packet_free_map, link |-> link, txlog |-> txlog, gh |-> ghost,
    sync |-> sync, ret |-> 0 ]

Commit(K) ==
  /\ socket_pool' = K.sp
  /\ socket_list' = K.sl
  /\ next_ephemeral_port' = K.nep
  /\ packet_free_map' = K.fm
  /\ link' = K.link
  /\ txlog' = K.txlog
  /\ ghost' = K.gh
  /\ sync' = K.sync

\* A call, a step of a call or a dispatch begins: the transmit log starts
\* anew.
Begin == [Kern EXCEPT !.txlog = << >>]

(***************************************************************************)
(* Bounds of the model.                                                    *)
(***************************************************************************)
\* Calls begun in one run of the socket-table specification.
MaxCalls == 5
\* Calls begun in one run of the connection specification, the three that
\* set the listener up included.
MaxConnCalls == 7
\* Frames arriving from the far node in one run of the connection
\* specification.
MaxConnExt == 1
\* Frames arriving from the far node in one run.
MaxExt == 3
\* Stream sends begun in one run of the ARQ specification.
MaxSends == 2
\* Receive calls begun in one run of the ARQ specification.
MaxRecvs == 2
\* Frames the link loses or duplicates in one run.
MaxFaults == 1

Threads == {1, 2}
IdleThread ==
  [pc |-> "idle", op |-> "none", sock |-> NULL, ret |-> 0, retries |-> 0,
   ack |-> FALSE, seq0 |-> 0, data |-> 0, len |-> 0, tick |-> 0, tx |-> 0,
   pre |-> FALSE, orig |-> FALSE, fresh |-> FALSE, peer |-> NULL,
   cport |-> 0, quiet |-> TRUE]

\* cap is the number of calls the run may make, extcap the number of frames
\* the far node may send.
ZeroCtr ==
  [calls |-> 0, cap |-> MaxCalls, sends |-> 0, recvs |-> 0, faults |-> 0,
   ext |-> 0, extcap |-> MaxExt]

Idle(t) == thr[t].pc = "idle"
Done(t, op, s, ret) ==
  [IdleThread EXCEPT !.op = op, !.sock = s, !.ret = ret]

\* The state danp_init leaves: every slot CLOSED, the list empty, the pool
\* full.
InitCommon ==
  /\ socket_pool = [i \in Slots |-> ZeroSocket]
  /\ socket_list = NULL
  /\ next_ephemeral_port = 1
  /\ packet_free_map = [i \in PoolIdx |-> TRUE]
  /\ link = EmptyLink
  /\ txlog = << >>
  /\ ghost = [i \in Slots |-> ZeroGhost]
  /\ thr = [t \in Threads |-> IdleThread]
  /\ held = [i \in Slots |-> 0]
  /\ app_pkts = {}
  /\ packet_next = [i \in PoolIdx |-> NULL]
  /\ route_table = TestRoutes
  /\ ctr = ZeroCtr

Bump(field) == ctr' = [ctr EXCEPT ![field] = @ + 1]

(***************************************************************************)
(* The calls of the socket API, one action per call or per step of a       *)
(* blocking call.                                                          *)
(***************************************************************************)
SocketCall(t, type) ==
  /\ Idle(t)
  /\ ctr.calls < ctr.cap
  /\ \E K \in {danp_socket(Begin, type)} :
        /\ Commit(K)
        /\ thr' = [thr EXCEPT ![t] = Done(t, "socket", K.ret, K.ret)]
        /\ held' = IF K.ret = NULL THEN held ELSE [held EXCEPT ![K.ret] = t]
  /\ Bump("calls")
  /\ UNCHANGED << app_pkts, packet_next, route_table >>

BindCall(t, s, port) ==
  /\ Idle(t)
  /\ ctr.calls < ctr.cap
  /\ held[s] = t
  /\ \E K \in {danp_bind(Begin, s, port)} :
        /\ Commit(K)
        /\ thr' = [thr EXCEPT ![t] = [Done(t, "bind", s, K.ret) EXCEPT
                                        !.cport = port]]
  /\ Bump("calls")
  /\ UNCHANGED << held, app_pkts, packet_next, route_table >>

ListenCall(t, s) ==
  /\ Idle(t)
  /\ ctr.calls < ctr.cap
  /\ held[s] = t
  /\ \E K \in {danp_listen(Begin, s)} :
        /\ Commit(K)
        /\ thr' = [thr EXCEPT ![t] = Done(t, "listen", s, K.ret)]
  /\ Bump("calls")
  /\ UNCHANGED << held, app_pkts, packet_next, route_table >>

\* Takes s out of the active list the way danp_close does.
CloseUnlink(K0, s) ==
  With(K0, LAMBDA K :
    LET l == ActiveList(K)
    IN IF K.sl = s THEN [K EXCEPT !.sl = K.sp[s].next]
       ELSE IF \E i \in 1 .. Len(l) : K.sp[l[i]].next = s
            THEN LET i == Min({j \in 1 .. Len(l) : K.sp[l[j]].next = s})
                 IN [K EXCEPT !.sp[l[i]].next = K.sp[s].next]
            ELSE K)

\* danp_close sending the RST only from the half-open states.
danp_close_rst_half_open(K0, s) ==
  With(K0, LAMBDA K :
    LET K1 == IF /\ K.sp[s].type = "STREAM"
                 /\ K.sp[s].state \in {"SYN_SENT", "SYN_RECEIVED"}
              THEN danp_send_control(K, s, DANP_FLAG_RST, 0)
              ELSE K
    IN [CloseUnlink(K1, s) EXCEPT !.sp[s].next = NULL,
                                  !.sp[s].state = "CLOSED",
                                  !.sp[s].local_port = 0,
                                  !.gh[s].port_src = "none",
                                  !.ret = 0])

danp_close(K0, s) ==
  With(K0, LAMBDA K :
    LET K1 == IF /\ K.sp[s].type = "STREAM"
                 /\ K.sp[s].state \in {"ESTABLISHED", "SYN_SENT", "SYN_RECEIVED"}
              THEN danp_send_control(K, s, DANP_FLAG_RST, 0)
              ELSE K
    IN [CloseUnlink(K1, s) EXCEPT !.sp[s].next = NULL,
                                  !.sp[s].state = "CLOSED",
                                  !.sp[s].local_port = 0,
                                  !.gh[s].port_src = "none",
                                  !.ret = 0])

\* Ghost: d is an accepted child connected to the stream socket s, both
\* ESTABLISHED.
ClosePair(s, d) ==
  /\ d # s
  /\ socket_pool[s].type = "STREAM"
  /\ socket_pool[s].state = "ESTABLISHED"
  /\ socket_pool[d].state = "ESTABLISHED"
  /\ ghost[d].port_src = "spawn"
  /\ held[d] > 0
  /\ socket_pool[d].remote_node = socket_pool[s].local_node
  /\ socket_pool[d].remote_port = socket_pool[s].local_port
  /\ socket_pool[s].remote_node = socket_pool[d].local_node
  /\ socket_pool[s].remote_port = socket_pool[d].local_port

\* The application closes a socket it holds, or one it closed before.
CloseCall(t, s) ==
  /\ Idle(t)
  /\ ctr.calls < ctr.cap
  /\ held[s] \in {t, -t}
  /\ \E K \in {danp_close(Begin, s)} :
     LET pair == \E d \in Slots : ClosePair(s, d)
     IN /\ Commit(K)
        /\ thr' = [thr EXCEPT ![t] =
                     [Done(t, "close", s, K.ret) EXCEPT
                        !.orig = pair,
                        !.pre = pair /\ danp_buffer_get_free_count(
                                          packet_free_map) >= 2,
                        !.peer = IF pair
                                 THEN Min({d \in Slots : ClosePair(s, d)})
                                 ELSE NULL]]
  /\ held' = [held EXCEPT ![s] = -t]
  /\ Bump("calls")
  /\ UNCHANGED << app_pkts, packet_next, route_table >>

\* danp_connect storing the peer's node but not its port.
danp_connect_no_port(K0, s, node, port) ==
  With(K0, LAMBDA K :
    LET K1 == IF K.sp[s].local_port = 0 THEN danp_bind(K, s, 0) ELSE K
        K2 == [K1 EXCEPT !.sp[s].remote_node = node,
                         !.gh[s].synack = FALSE]
    IN IF K.sp[s].type = "DGRAM"
       THEN [K2 EXCEPT !.sp[s].state = "ESTABLISHED", !.ret = 0]
       ELSE danp_send_control([K2 EXCEPT !.sp[s].state = "SYN_SENT"],
                              s, DANP_FLAG_SYN, 0))

\* danp_connect up to its wait on the signal.
danp_connect(K0, s, node, port) ==
  With(K0, LAMBDA K :
    LET K1 == IF K.sp[s].local_port = 0 THEN danp_bind(K, s, 0) ELSE K
        K2 == [K1 EXCEPT !.sp[s].remote_node = node,
                         !.sp[s].remote_port = port,
                         !.gh[s].synack = FALSE]
    IN IF K.sp[s].type = "DGRAM"
       THEN [K2 EXCEPT !.sp[s].state = "ESTABLISHED", !.ret = 0]
       ELSE danp_send_control([K2 EXCEPT !.sp[s].state = "SYN_SENT"],
                              s, DANP_FLAG_SYN, 0))

\* Ghost: what holds when connect is called.  ListenerAt is the first
\* LISTENING socket of the list on the port; SynTarget is the socket the
\* dispatcher will find for the SYN.
ListenerAt(K, port) ==
  LET l == ActiveList(K)
      Hit(i) == K.sp[l[i]].state = "LISTENING" /\ K.sp[l[i]].local_port = port
  IN IF \E i \in 1 .. Len(l) : Hit(i)
     THEN l[Min({i \in 1 .. Len(l) : Hit(i)})]
     ELSE NULL

SynTarget(K, s, node, port) ==
  LET K1 == IF K.sp[s].local_port = 0 THEN danp_bind(K, s, 0) ELSE K
      K2 == [K1 EXCEPT !.sp[s].remote_node = node,
                       !.sp[s].remote_port = port,
                       !.sp[s].state = "SYN_SENT"]
  IN IF K1.sp[s].local_port = 0 THEN NULL
     ELSE danp_find_socket(K2, port, LOCAL_NODE, K1.sp[s].local_port)

ConnectOrig(K, s, node, port) ==
  /\ K.sp[s].type = "STREAM"
  /\ K.sp[s].state = "OPEN"
  /\ node = LOCAL_NODE
  /\ port # 0
  /\ ListenerAt(K, port) # NULL

ConnectPre(K, s, node, port) ==
  /\ ConnectOrig(K, s, node, port)
  /\ InList(K, s)
  /\ SynTarget(K, s, node, port) = ListenerAt(K, port)
  /\ K.sp[ListenerAt(K, port)].accept_queue = << >>
  /\ danp_buffer_get_free_count(K.fm) >= 6
  /\ \E i \in Slots : K.sp[i].state = "CLOSED" /\ K.sp[i].local_port = 0

ConnectCall(t, s, node, port) ==
  /\ Idle(t)
  /\ ctr.calls < ctr.cap
  /\ held[s] = t
  /\ \E K \in {danp_connect(Begin, s, node, port)} :
        /\ Commit(K)
        /\ thr' = [thr EXCEPT ![t] =
                     IF socket_pool[s].type = "DGRAM"
                     THEN Done(t, "connect", s, 0)
                     ELSE [IdleThread EXCEPT
                             !.pc = "connect_wait", !.op = "connect",
                             !.sock = s,
                             !.orig = ConnectOrig(Begin, s, node, port),
                             !.fresh = socket_pool[s].state = "OPEN",
                             !.pre = ConnectPre(Begin, s, node, port),
                             !.peer = ListenerAt(Begin, port),
                             !.cport = K.sp[s].local_port]]
  /\ Bump("calls")
  /\ UNCHANGED << held, app_pkts, packet_next, route_table >>

\* What connect's return keeps of the ghost fields of the call.
ConnectDone(t, ret) ==
  [Done(t, "connect", thr[t].sock, ret) EXCEPT
     !.pre = thr[t].pre, !.orig = thr[t].orig, !.peer = thr[t].peer,
     !.cport = thr[t].cport, !.quiet = thr[t].quiet]

\* osal_semaphore_take returned 0 within ACK_TIMEOUT_MS.
ConnectWake(t) ==
  /\ thr[t].pc = "connect_wait"
  /\ socket_pool[thr[t].sock].signal = 1
  /\ socket_pool' = [socket_pool EXCEPT ![thr[t].sock].signal = 0]
  /\ thr' = [thr EXCEPT ![t] = ConnectDone(t, 0)]
  /\ UNCHANGED << socket_list, next_ephemeral_port, packet_free_map, link,
                  txlog, ghost, sync, held, app_pkts, packet_next, route_table, ctr >>

\* The take timed out: the signal was not given during the wait.
ConnectTimeout(t) ==
  /\ thr[t].pc = "connect_wait"
  /\ socket_pool[thr[t].sock].signal = 0
  /\ thr' = [thr EXCEPT ![t].pc = "connect_revert"]
  /\ UNCHANGED << kvars, held, app_pkts, packet_next, route_table, ctr >>

ConnectRevert(t) ==
  /\ thr[t].pc = "connect_revert"
  /\ socket_pool' = [socket_pool EXCEPT ![thr[t].sock].state = "OPEN"]
  /\ thr' = [thr EXCEPT ![t] = ConnectDone(t, -1)]
  /\ UNCHANGED << socket_list, next_ephemeral_port, packet_free_map, link,
                  txlog, ghost, sync, held, app_pkts, packet_next, route_table, ctr >>

\* danp_accept once its wait on the accept queue is over: a child was
\* queued, or the timeout passed with the queue empty.
AcceptCall(t, s) ==
  /\ Idle(t)
  /\ ctr.calls < ctr.cap
  /\ held[s] = t
  /\ LET q == socket_pool[s].accept_queue
         after == /\ thr[t].op = "connect"
                  /\ thr[t].peer = s /\ thr[t].quiet
         rec(ret) == [Done(t, "accept", s, ret) EXCEPT
                        !.pre = after /\ thr[t].pre,
                        !.orig = after /\ thr[t].orig,
                        !.peer = thr[t].sock,
                        !.cport = thr[t].cport]
     IN IF q = << >>
        THEN /\ thr' = [thr EXCEPT ![t] = rec(NULL)]
             /\ UNCHANGED << socket_pool, held >>
        ELSE /\ socket_pool' = [socket_pool EXCEPT ![s].accept_queue = Tail(q)]
             /\ thr' = [thr EXCEPT ![t] = rec(Head(q))]
             /\ held' = [held EXCEPT ![Head(q)] = t]
  /\ txlog' = << >>
  /\ Bump("calls")
  /\ UNCHANGED << socket_list, next_ephemeral_port, packet_free_map, link,
                  ghost, sync, app_pkts, packet_next, route_table >>

\* danp_send on a DGRAM socket: one frame to the stored peer, no wait.
danp_send_dgram(K, s, data, len) ==
  LET g == danp_buffer_get(K.fm)
      sock == K.sp[s]
      frame == [hdr |-> danpPackHeader(0, sock.remote_node, sock.local_node,
                                       sock.remote_port, sock.local_port,
                                       DANP_FLAG_NONE),
                len |-> len, p0 |-> data % SEQ_MODULUS, body |-> data]
  IN IF g.pkt = NULL THEN [K EXCEPT !.ret = -1]
     ELSE [danp_route_tx([K EXCEPT !.fm = g.fm], frame) EXCEPT
             !.fm = danp_buffer_free(@, g.pkt), !.ret = len]

\* danp_send begins.  A stream send goes on step by step; the other cases
\* return at once.
SendCall(t, s, len) ==
  /\ Idle(t)
  /\ ctr.sends < MaxSends
  /\ held[s] = t
  /\ IF len > DANP_MAX_PACKET_SIZE - 1
     THEN /\ thr' = [thr EXCEPT ![t] = Done(t, "send", s, -1)]
          /\ Commit(Begin)
     ELSE IF socket_pool[s].type = "DGRAM"
     THEN \E K \in {danp_send_dgram(Begin, s, ctr.sends + 1, len)} :
             /\ Commit(K)
             /\ thr' = [thr EXCEPT ![t] = Done(t, "send", s, K.ret)]
     ELSE /\ Commit([Begin EXCEPT !.gh[s].resync = FALSE])
          /\ thr' = [thr EXCEPT ![t] =
                       [IdleThread EXCEPT !.pc = "send_loop", !.op = "send",
                                          !.sock = s, !.data = ctr.sends + 1,
                                          !.len = len,
                                          !.seq0 = socket_pool[s].tx_seq]]
  /\ Bump("sends")
  /\ UNCHANGED << held, app_pkts, packet_next, route_table >>

\* One transmission of the data frame (the loop body up to the wait).
danp_send_attempt(K, s, data, len) ==
  LET g == danp_buffer_get(K.fm)
      sock == K.sp[s]
      frame == [hdr |-> danpPackHeader(0, sock.remote_node, sock.local_node,
                                       sock.remote_port, sock.local_port,
                                       DANP_FLAG_NONE),
                len |-> len + 1, p0 |-> sock.tx_seq, body |-> data]
  IN [danp_route_tx([K EXCEPT !.fm = g.fm], frame) EXCEPT
        !.fm = danp_buffer_free(@, g.pkt)]

SendAttempt(t) ==
  /\ thr[t].pc = "send_loop"
  /\ danp_buffer_get(packet_free_map).pkt # NULL
  /\ \E K \in {danp_send_attempt(Begin, thr[t].sock, thr[t].data,
                                  thr[t].len)} :
        /\ Commit(K)
        /\ thr' = [thr EXCEPT ![t].pc = "send_wait",
                              ![t].tx = IF K.txlog # << >> THEN @ + 1 ELSE @]
  /\ UNCHANGED << held, app_pkts, packet_next, route_table, ctr >>

\* No pool record: the loop sleeps 10 ms and goes round again with retries
\* unchanged.  tick tells one pass from the next.
SendNoBuffer(t) ==
  /\ thr[t].pc = "send_loop"
  /\ danp_buffer_get(packet_free_map).pkt = NULL
  /\ thr' = [thr EXCEPT ![t].tick = 1 - @]
  /\ UNCHANGED << kvars, held, app_pkts, packet_next, route_table, ctr >>

SendAckd(t) ==
  /\ thr[t].pc = "send_wait"
  /\ socket_pool[thr[t].sock].signal = 1
  /\ socket_pool' = [socket_pool EXCEPT ![thr[t].sock].signal = 0]
  /\ thr' = [thr EXCEPT ![t].pc = "send_fin", ![t].ack = TRUE,
                        ![t].retries = @ + 1]
  /\ UNCHANGED << socket_list, next_ephemeral_port, packet_free_map, link,
                  txlog, ghost, sync, held, app_pkts, packet_next, route_table, ctr >>

\* What send's return keeps of the ghost fields of the call.
SendDone(t, ret) ==
  [Done(t, "send", thr[t].sock, ret) EXCEPT
     !.seq0 = thr[t].seq0, !.data = thr[t].data, !.len = thr[t].len,
     !.tx = thr[t].tx]

SendTimeout(t) ==
  /\ thr[t].pc = "send_wait"
  /\ socket_pool[thr[t].sock].signal = 0
  /\ thr' = [thr EXCEPT ![t] =
               IF thr[t].retries + 1 < DANP_RETRY_LIMIT
               THEN [thr[t] EXCEPT !.pc = "send_loop", !.retries = @ + 1]
               ELSE [SendDone(t, -1) EXCEPT !.retries = thr[t].retries + 1]]
  /\ UNCHANGED << kvars, held, app_pkts, packet_next, route_table, ctr >>

\* danp_send's last step with the increment taken as unbounded.
SendFin_no_wrap(t) ==
  /\ thr[t].pc = "send_fin"
  /\ socket_pool' = [socket_pool EXCEPT ![thr[t].sock].tx_seq = @ + 1]
  /\ ghost' = [ghost EXCEPT ![thr[t].sock].sent = Append(@, thr[t].data)]
  /\ thr' = [thr EXCEPT ![t] =
               [SendDone(t, thr[t].len) EXCEPT !.retries = thr[t].retries,
                                               !.ack = TRUE]]
  /\ UNCHANGED << socket_list, next_ephemeral_port, packet_free_map, link,
                  txlog, sync, held, app_pkts, packet_next, route_table, ctr >>

\* The acknowledged send counts its sequence number on and returns len.
SendFin(t) ==
  /\ thr[t].pc = "send_fin"
  /\ socket_pool' = [socket_pool EXCEPT
                       ![thr[t].sock].tx_seq = (@ + 1) % SEQ_MODULUS]
  /\ ghost' = [ghost EXCEPT ![thr[t].sock].sent = Append(@, thr[t].data)]
  /\ thr' = [thr EXCEPT ![t] =
               [SendDone(t, thr[t].len) EXCEPT !.retries = thr[t].retries,
                                               !.ack = TRUE]]
  /\ UNCHANGED << socket_list, next_ephemeral_port, packet_free_map, link,
                  txlog, sync, held, app_pkts, packet_next, route_table, ctr >>

\* danp_recv once a queue entry is there: the state after, ret = bytes copied.
danp_recv(K, s) ==
  LET pkt == Head(K.sp[s].rx_queue)
      K1 == [K EXCEPT !.sp[s].rx_queue = Tail(@)]
      copy_len == IF K.sp[s].type = "DGRAM"
                  THEN (IF pkt.len > RECV_BUF THEN RECV_BUF ELSE pkt.len)
                  ELSE IF pkt.len > 0
                       THEN (IF pkt.len - 1 > RECV_BUF THEN RECV_BUF
                             ELSE pkt.len - 1)
                       ELSE 0
  IN IF pkt.idx = NULL THEN [K1 EXCEPT !.ret = 0]
     ELSE [K1 EXCEPT !.fm = danp_buffer_free(K1.fm, pkt.idx),
                     !.gh[s].deliv = Append(@, pkt.body),
                     !.ret = copy_len]

\* ack tells that a payload was handed to the caller, data names it.
RecvDone(t, s, K) ==
  LET pkt == Head(socket_pool[s].rx_queue)
  IN [Done(t, "recv", s, K.ret) EXCEPT
        !.data = pkt.body, !.ack = pkt.idx # NULL, !.pre = thr[t].pre]

RecvCall(t, s, forever) ==
  /\ Idle(t)
  /\ ctr.recvs < MaxRecvs
  /\ held[s] = t
  /\ IF socket_pool[s].rx_queue # << >>
     THEN \E K \in {danp_recv(Begin, s)} :
             Commit(K) /\ thr' = [thr EXCEPT ![t] =
                                    [RecvDone(t, s, K) EXCEPT !.pre = FALSE]]
     ELSE /\ Commit(Begin)
          /\ thr' = [thr EXCEPT ![t] =
                       IF forever
                       THEN [IdleThread EXCEPT
                               !.pc = "recv_wait", !.op = "recv", !.sock = s,
                               !.pre = socket_pool[s].state = "ESTABLISHED"
                                       /\ socket_pool[s].type = "STREAM"]
                       ELSE Done(t, "recv", s, 0)]
  /\ Bump("recvs")
  /\ UNCHANGED << held, app_pkts, packet_next, route_table >>

RecvWake(t) ==
  /\ thr[t].pc = "recv_wait"
  /\ socket_pool[thr[t].sock].rx_queue # << >>
  /\ \E K \in {danp_recv(Begin, thr[t].sock)} :
        Commit(K) /\ thr' = [thr EXCEPT ![t] = RecvDone(t, thr[t].sock, K)]
  /\ UNCHANGED << held, app_pkts, packet_next, route_table, ctr >>

\* The application takes pool records itself (danp_buffer_get is public)
\* until only keep are left free, and later gives them all back.
RECURSIVE GetDownTo(_, _)
GetDownTo(fm, keep) ==
  IF danp_buffer_get_free_count(fm) <= keep THEN fm
  ELSE GetDownTo(danp_buffer_get(fm).fm, keep)

RECURSIVE FreeAll(_, _)
FreeAll(fm, pkts) ==
  IF pkts = {} THEN fm
  ELSE FreeAll(danp_buffer_free(fm, Min(pkts)), pkts \ {Min(pkts)})

AppBufferDrain(t, keep) ==
  /\ Idle(t)
  /\ app_pkts = {}
  /\ danp_buffer_get_free_count(packet_free_map) > keep
  /\ packet_free_map' = GetDownTo(packet_free_map, keep)
  /\ app_pkts' = {i \in PoolIdx : packet_free_map[i] /\ ~ packet_free_map'[i]}
  /\ UNCHANGED << socket_pool, socket_list, next_ephemeral_port, link, txlog,
                  ghost, sync, thr, held, ctr, packet_next, route_table >>

AppBufferRelease(t) ==
  /\ Idle(t)
  /\ app_pkts # {}
  /\ packet_free_map' = FreeAll(packet_free_map, app_pkts)
  /\ app_pkts' = {}
  /\ UNCHANGED << socket_pool, socket_list, next_ephemeral_port, link, txlog,
                  ghost, sync, thr, held, ctr, packet_next, route_table >>

(***************************************************************************)
(* The drivers' receive threads.                                           *)
(***************************************************************************)
\* The port the far node's endpoint uses.
FAR_PORT == 21
\* The port the tests' server listens on, and the one their client binds.
SERVER_PORT == 10
CLIENT_PORT == 11

ExtFrame(dport, flags, len, p0) ==
  [hdr |-> danpPackHeader(0, LOCAL_NODE, REMOTE_NODE, dport, FAR_PORT, flags),
   len |-> len, p0 |-> p0, body |-> 0]

ExtFrames ==
  { ExtFrame(SERVER_PORT, DANP_FLAG_SYN, 0, 0),
    ExtFrame(SERVER_PORT, DANP_FLAG_ACK, 1, 0),
    ExtFrame(SERVER_PORT, DANP_FLAG_RST, 0, 0) }

\* A frame from the far node reaches danp_input on its driver's thread.
IngressFrame(f) ==
  /\ ctr.ext < ctr.extcap
  /\ \E K \in {danpInput(Begin, f)} : Commit(K)
  /\ thr' = [t \in Threads |-> [thr[t] EXCEPT !.quiet = FALSE]]
  /\ Bump("ext")
  /\ UNCHANGED << held, app_pkts, packet_next, route_table >>

\* The queueing loopback's receive thread takes the oldest frame in flight
\* to danp_input.
Deliver ==
  /\ link # EmptyLink
  /\ \E K \in {danpInput([Begin EXCEPT !.link = Tail(@)], Head(link))} :
        Commit(K)
  /\ UNCHANGED << thr, held, app_pkts, packet_next, route_table, ctr >>

\* The link loses the i-th frame in flight.
Lose(i) ==
  /\ i \in DOMAIN link
  /\ ctr.faults < MaxFaults
  /\ link' = LinkRemove(link, i)
  /\ Bump("faults")
  /\ UNCHANGED << socket_pool, socket_list, next_ephemeral_port,
                  packet_free_map, txlog, ghost, sync, thr, held, app_pkts, packet_next, route_table >>

\* The link repeats the i-th frame in flight; the copy arrives after the
\* frames already there.
Duplicate(i) ==
  /\ i \in DOMAIN link
  /\ ctr.faults < MaxFaults
  /\ link' = LinkAdd(link, link[i])
  /\ Bump("faults")
  /\ UNCHANGED << socket_pool, socket_list, next_ephemeral_port,
                  packet_free_map, txlog, ghost, sync, thr, held, app_pkts, packet_next, route_table >>

(***************************************************************************)
(* The socket table under the synchronous loopback driver: one             *)
(* application thread makes the calls, the far node's frames come in       *)
(* between.                                                                *)
(***************************************************************************)
Init ==
  /\ InitCommon
  /\ sync = TRUE

Next ==
  \/ SocketCall(1, "STREAM")
  \/ \E s \in Slots : BindCall(1, s, SERVER_PORT)
  \/ \E s \in Slots : ListenCall(1, s)
  \/ \E s \in Slots : ConnectCall(1, s, LOCAL_NODE, SERVER_PORT)
  \/ ConnectWake(1)
  \/ ConnectTimeout(1)
  \/ ConnectRevert(1)
  \/ \E s \in Slots : AcceptCall(1, s)
  \/ \E s \in Slots : CloseCall(1, s)
  \/ \E f \in ExtFrames : IngressFrame(f)

Spec == Init /\ [][Next]_vars

(***************************************************************************)
(* Connections under the synchronous loopback driver.  The run starts with *)
(* the server of the tests set up: a stream socket bound to SERVER_PORT    *)
(* and listening.                                                          *)
(***************************************************************************)
Base ==
  [ sp |-> [i \in Slots |-> ZeroSocket], sl |-> NULL, nep |-> 1,
    fm |-> [i \in PoolIdx |-> TRUE], link |-> EmptyLink, txlog |-> << >>,
    gh |-> [i \in Slots |-> ZeroGhost], sync |-> TRUE, ret |-> 0 ]

Served ==
  LET A == danp_socket(Base, "STREAM")
      B == danp_bind(A, A.ret, SERVER_PORT)
  IN [danp_listen(B, A.ret) EXCEPT !.ret = A.ret]

InitConn ==
  /\ socket_pool = Served.sp
  /\ socket_list = Served.sl
  /\ next_ephemeral_port = Served.nep
  /\ packet_free_map = Served.fm
  /\ link = EmptyLink
  /\ txlog = << >>
  /\ ghost = Served.gh
  /\ sync = TRUE
  /\ thr = [t \in Threads |-> IdleThread]
  /\ held = [i \in Slots |-> IF i = Served.ret THEN 1 ELSE 0]
  /\ app_pkts = {}
  /\ packet_next = [i \in PoolIdx |-> NULL]
  /\ route_table = TestRoutes
  /\ ctr = [ZeroCtr EXCEPT !.calls = 3, !.cap = MaxConnCalls,
                            !.extcap = MaxConnExt]

NextConn ==
  \/ SocketCall(1, "STREAM")
  \/ \E s \in Slots : ConnectCall(1, s, LOCAL_NODE, SERVER_PORT)
  \/ ConnectWake(1)
  \/ ConnectTimeout(1)
  \/ ConnectRevert(1)
  \/ \E s \in Slots : AcceptCall(1, s)
  \/ \E s \in Slots : CloseCall(1, s)
  \/ \E keep \in {1, 5} : AppBufferDrain(1, keep)
  \/ AppBufferRelease(1)
  \/ \E f \in ExtFrames : IngressFrame(f)

SpecConn == InitConn /\ [][NextConn]_vars

(***************************************************************************)
(* One stream connection over the queueing loopback, whose frames wait in  *)
(* flight and may be lost, delayed or duplicated.  The run starts with the *)
(* connection of the tests established: the client bound to CLIENT_PORT    *)
(* and connected, the child accepted.  Thread 1 has the client, thread 2   *)
(* the child.                                                              *)
(***************************************************************************)
Handshaken ==
  With(danp_connect(danp_bind(danp_socket(Served, "STREAM"),
                              danp_socket(Served, "STREAM").ret, CLIENT_PORT),
                    danp_socket(Served, "STREAM").ret,
                    LOCAL_NODE, SERVER_PORT), LAMBDA C :
    LET srv == Served.ret
        cli == danp_socket(Served, "STREAM").ret
        child == Head(C.sp[srv].accept_queue)
    IN [K |-> [C EXCEPT !.sp[cli].signal = 0,
                        !.sp[srv].accept_queue = Tail(@)],
        srv |-> srv, cli |-> cli, child |-> child])

\* The client's SYN, of which the link may still hold a copy.
HandshakeSyn ==
  [hdr |-> danpPackHeader(0, LOCAL_NODE, LOCAL_NODE, SERVER_PORT, CLIENT_PORT,
                          DANP_FLAG_SYN),
   len |-> 0, p0 |-> 0, body |-> 0]

\* The connection has carried 255 payloads, so the next sequence number is
\* 255 and the one after wraps; dup tells whether a duplicate of the SYN is
\* still in flight, sends how many of the run's sends are already spent.
ArqStart(dup, sends) ==
  \E H \in {Handshaken} :
  LET seq == SEQ_MODULUS - 1
  IN /\ socket_pool = [H.K.sp EXCEPT ![H.cli].tx_seq = seq,
                                     ![H.child].rx_expected_seq = seq]
     /\ socket_list = H.K.sl
     /\ next_ephemeral_port = H.K.nep
     /\ packet_free_map = H.K.fm
     /\ link = IF dup THEN LinkAdd(EmptyLink, HandshakeSyn) ELSE EmptyLink
     /\ txlog = << >>
     /\ ghost = H.K.gh
     /\ sync = FALSE
     /\ thr = [t \in Threads |-> IdleThread]
     /\ held = [i \in Slots |-> IF i = H.cli THEN 1
                                ELSE IF i = H.child THEN 2 ELSE 0]
     /\ app_pkts = {}
     /\ packet_next = [i \in PoolIdx |-> NULL]
     /\ route_table = TestRoutes
     /\ ctr = [ZeroCtr EXCEPT !.faults = IF dup THEN 1 ELSE 0,
                              !.sends = sends]

InitArq == \E dup \in BOOLEAN : ArqStart(dup, 0)

SendStep(t) ==
  \/ SendAttempt(t)
  \/ SendNoBuffer(t)
  \/ SendAckd(t)
  \/ SendTimeout(t)
  \/ SendFin(t)

\* The pool never runs dry here (two payloads at most are queued), so the
\* send loop always finds a record.
NextArq ==
  \/ \E s \in Slots, len \in {1, DANP_MAX_PACKET_SIZE} : SendCall(1, s, len)
  \/ SendAttempt(1)
  \/ SendAckd(1)
  \/ SendTimeout(1)
  \/ SendFin(1)
  \/ \E s \in Slots : RecvCall(2, s, TRUE)
  \/ RecvWake(2)
  \/ Deliver
  \/ \E i \in DOMAIN link : Lose(i)
  \/ \E i \in DOMAIN link : Duplicate(i)

SpecArq == InitArq /\ [][NextArq]_vars

(***************************************************************************)
(* The same connection with one send left, the client free to close and    *)
(* the receiving application free to hold pool records.  A call that can   *)
(* take its next step takes it; nothing obliges the application to give    *)
(* records back.                                                           *)
(***************************************************************************)
InitLive == ArqStart(FALSE, MaxSends - 1)

NextLive ==
  \/ \E s \in Slots : SendCall(1, s, 1)
  \/ SendStep(1)
  \/ \E s \in Slots : held[s] = 1 /\ CloseCall(1, s)
  \/ \E s \in Slots : RecvCall(2, s, TRUE)
  \/ RecvWake(2)
  \/ Deliver
  \/ \E i \in DOMAIN link : Lose(i)
  \/ AppBufferDrain(2, 0)
  \/ AppBufferRelease(2)

SpecLive ==
  /\ InitLive
  /\ [][NextLive]_vars
  /\ WF_vars(SendStep(1))
  /\ WF_vars(RecvWake(2))

(***************************************************************************)
(* Properties of the socket table.                                         *)
(***************************************************************************)
Linked(s) == InList(Kern, s)

C9_ClosedSlotsClean ==
  \A s \in Slots :
    socket_pool[s].state = "CLOSED"
    => socket_pool[s].local_port = 0 /\ ~ Linked(s)

\* C10: close on a socket that is already CLOSED returns success, emits no
\* frame and leaves the states, the ports and the active list as they were.
C10_CloseIdempotent ==
  [][ \A s \in Slots :
        ( /\ socket_pool[s].state = "CLOSED"
          /\ ctr'.calls = ctr.calls + 1
          /\ thr'[1].op = "close"
          /\ thr'[1].sock = s )
        => /\ thr'[1].ret = 0
           /\ txlog' = << >>
           /\ \A i \in Slots :
                /\ socket_pool'[i].state = socket_pool[i].state
                /\ socket_pool'[i].local_port = socket_pool[i].local_port
           /\ Walk(socket_pool', socket_list', DANP_MAX_SOCKET_COUNT)
                = Walk(socket_pool, socket_list, DANP_MAX_SOCKET_COUNT) ]_vars

(***************************************************************************)
(* Properties of the handshake and of connection reset under the           *)
(* synchronous loopback driver.                                            *)
(***************************************************************************)
\* d is a child of listener l connected to client c.
ChildOf(d, c, l) ==
  /\ d # NULL
  /\ socket_pool[d].state = "ESTABLISHED"
  /\ socket_pool[d].remote_node = socket_pool[c].local_node
  /\ socket_pool[d].remote_port = socket_pool[c].local_port
  /\ socket_pool[d].local_port = socket_pool[l].local_port

\* connect has returned to thread t, and no frame of the far node was
\* processed since it was called.
ConnectReturned(t) ==
  Idle(t) /\ thr[t].op = "connect" /\ thr[t].quiet

\* accept has returned to thread t; it was the call after that connect.
AcceptReturned(t) ==
  Idle(t) /\ thr[t].op = "accept" /\ thr[t].quiet

\* C4: connect on a stream socket (in state OPEN) to a port where a socket
\* is LISTENING returns success with the client ESTABLISHED; the next accept on the
\* listener returns an ESTABLISHED child whose remote (node, port) are the
\* client's local ones and whose local port is the listener's; the listener
\* stays LISTENING.
C4_Handshake ==
  \A t \in Threads :
    /\ (ConnectReturned(t) /\ thr[t].orig)
       => /\ thr[t].ret = 0
          /\ socket_pool[thr[t].sock].state = "ESTABLISHED"
          /\ socket_pool[thr[t].peer].state = "LISTENING"
    /\ (AcceptReturned(t) /\ thr[t].orig)
       => /\ ChildOf(thr[t].ret, thr[t].peer, thr[t].sock)
          /\ socket_pool[thr[t].sock].state = "LISTENING"

\* C4 as amended: the same, when the socket the
\* dispatcher finds for the SYN is the listener (no socket on that port is
\* already connected to the client's node and port), the client is in the
\* active list (it came from socket() and was not closed since), the
\* listener's accept queue is empty, a socket slot is free, at least six pool
\* records are free, and no frame of another node is processed in between.
C4_HandshakeFresh ==
  \A t \in Threads :
    /\ (ConnectReturned(t) /\ thr[t].pre)
       => /\ thr[t].ret = 0
          /\ socket_pool[thr[t].sock].state = "ESTABLISHED"
          /\ socket_pool[thr[t].peer].state = "LISTENING"
          /\ socket_pool[thr[t].peer].accept_queue # << >>
          /\ ChildOf(Head(socket_pool[thr[t].peer].accept_queue),
                     thr[t].sock, thr[t].peer)
    /\ (AcceptReturned(t) /\ thr[t].pre)
       => /\ ChildOf(thr[t].ret, thr[t].peer, thr[t].sock)
          /\ socket_pool[thr[t].peer].state = "ESTABLISHED"
          /\ socket_pool[thr[t].sock].state = "LISTENING"

\* accept has returned the child of a handshake that met the conditions.
C4_Witness ==
  /\ AcceptReturned(1) /\ thr[1].pre
  /\ thr[1].ret # NULL
  /\ socket_pool[thr[1].ret].state = "ESTABLISHED"
  /\ socket_pool[thr[1].ret].remote_port = thr[1].cport
  /\ held[thr[1].ret] = 1

\* C5: if no SYN|ACK for the socket is processed during connect's wait,
\* connect on a stream socket returns error and the socket is in state OPEN
\* when the call returns (stated for a socket that was OPEN at the call).
C5_ConnectTimeout ==
  [][ \A t \in Threads :
        ( /\ thr[t].op = "connect"
          /\ thr[t].fresh
          /\ thr[t].pc # "idle"
          /\ thr'[t].pc = "idle"
          /\ ~ ghost'[thr[t].sock].synack )
        => /\ thr'[t].ret = -1
           /\ socket_pool'[thr[t].sock].state = "OPEN" ]_vars

\* A connect returned error after its timeout, the socket back in OPEN.
C5_Witness ==
  /\ Idle(1) /\ thr[1].op = "connect" /\ thr[1].ret = -1
  /\ socket_pool[thr[1].sock].state = "OPEN"
  /\ ~ ghost[thr[1].sock].synack

CountRst(log) == Cardinality({i \in 1 .. Len(log) : log[i] = "RST"})

\* close has returned to thread t, and no frame of the far node was
\* processed since.
CloseReturned(t) ==
  Idle(t) /\ thr[t].op = "close" /\ thr[t].quiet

Taken(d) ==
  LET q == SelectSeq(socket_pool[d].rx_queue, LAMBDA e : e.idx # NULL)
  IN ghost[d].deliv \o [i \in DOMAIN q |-> q[i].body]

Increasing(q) == \A i, j \in DOMAIN q : i < j => q[i] < q[j]

\* A frame carrying payload x is still in flight.
InFlight(x) == \E i \in DOMAIN link : link[i].body = x

\* C1: on the established connection every payload whose send has returned
\* success has been taken by the receiving socket or is still on its way,
\* and the receiving socket hands payloads over once each and in the order
\* of the sends (payloads are numbered in the order their sends were
\* called).
C1_InOrderDelivery ==
  LET got == Taken(CHOOSE d \in Slots : held[d] = 2)
      sent == ghost[CHOOSE s \in Slots : held[s] = 1].sent
  IN /\ Increasing(got)
     /\ \A i \in DOMAIN sent :
          InFlight(sent[i]) \/ \E j \in DOMAIN got : got[j] = sent[i]

\* A send of thread t returns in this step.
SendReturns(t) ==
  /\ thr'[t] # thr[t]
  /\ thr'[t].pc = "idle"
  /\ thr'[t].op = "send"

\* tx_seq when the returning send began.
StartSeq(t) ==
  IF Idle(t) THEN socket_pool[thr'[t].sock].tx_seq ELSE thr[t].seq0

TxSeqStep(t) ==
  LET s == thr'[t].sock
  IN /\ thr'[t].ret >= 0
        => socket_pool'[s].tx_seq = (StartSeq(t) + 1) % SEQ_MODULUS
     /\ thr'[t].ret < 0 => socket_pool'[s].tx_seq = StartSeq(t)

\* C2 as stated: a stream send that returns success leaves tx_seq at its
\* value at the start of the call plus 1 modulo 256, one that returns error
\* leaves it at that value.
C2_TxSeqStep ==
  [][\A t \in Threads :
       SendReturns(t) /\ socket_pool[thr'[t].sock].type = "STREAM"
       => TxSeqStep(t)]_vars

\* C2 amended: the same, for the calls during which the dispatcher has
\* processed no SYN for the socket and the slot was not allocated anew.
C2_TxSeqStepNoResync ==
  [][\A t \in Threads :
       /\ SendReturns(t)
       /\ socket_pool[thr'[t].sock].type = "STREAM"
       /\ ~ ghost'[thr'[t].sock].resync
       => TxSeqStep(t)]_vars

\* An acknowledged send that began at 255 has returned and tx_seq is 0.
C2_Witness ==
  \E t \in Threads :
    /\ Idle(t) /\ thr[t].op = "send" /\ thr[t].ret > 0
    /\ thr[t].seq0 = SEQ_MODULUS - 1
    /\ ~ ghost[thr[t].sock].resync
    /\ socket_pool[thr[t].sock].tx_seq = 0

\* C3: every stream send returns, having put its frame on the wire at most
\* RETRY_LIMIT times, whatever the pool holds meanwhile.
C3_SendTerminates ==
  /\ [](\A t \in Threads : thr[t].tx <= DANP_RETRY_LIMIT)
  /\ \A t \in Threads : (thr[t].op = "send" /\ ~ Idle(t)) ~> Idle(t)

\* The RST has been processed for the socket thread t waits on in recv: the
\* socket was ESTABLISHED when recv blocked, is CLOSED now, and its receive
\* queue holds no payload.
ResetWhileBlocked(t) ==
  /\ thr[t].pc = "recv_wait"
  /\ thr[t].pre
  /\ socket_pool[thr[t].sock].state = "CLOSED"
  /\ \A i \in DOMAIN socket_pool[thr[t].sock].rx_queue :
       socket_pool[thr[t].sock].rx_queue[i].idx = NULL

RecvReturnedEmpty(t) ==
  /\ Idle(t)
  /\ thr[t].op = "recv"
  /\ thr[t].ret = 0
  /\ ~ thr[t].ack

\* C7: a recv that waits forever on an ESTABLISHED stream socket with an
\* empty receive queue returns, with no payload, once the peer's RST has been
\* processed.
C7_RecvWakesOnRst ==
  \A t \in Threads : ResetWhileBlocked(t) ~> RecvReturnedEmpty(t)

C7_Witness ==
  \E t \in Threads :
    /\ RecvReturnedEmpty(t)
    /\ thr[t].pre
    /\ socket_pool[thr[t].sock].state = "CLOSED"

(***************************************************************************)
(* Binding.  The run starts from the state after danp_init, with the       *)
(* ephemeral cursor at its first value or at one of its last two; the      *)
(* application creates, binds, connects and closes sockets.                *)
(***************************************************************************)
\* The ports the application asks bind for: the ephemeral request, the first
\* port, the server's, the last valid one and the first invalid one.
BindPorts == {0, 1, SERVER_PORT, DANP_MAX_PORTS - 1, DANP_MAX_PORTS}

InitBind ==
  /\ socket_pool = [i \in Slots |-> ZeroSocket]
  /\ socket_list = NULL
  /\ next_ephemeral_port \in {1, DANP_MAX_PORTS - 2, DANP_MAX_PORTS - 1}
  /\ packet_free_map = [i \in PoolIdx |-> TRUE]
  /\ link = EmptyLink
  /\ txlog = << >>
  /\ ghost = [i \in Slots |-> ZeroGhost]
  /\ sync = TRUE
  /\ thr = [t \in Threads |-> IdleThread]
  /\ held = [i \in Slots |-> 0]
  /\ app_pkts = {}
  /\ packet_next = [i \in PoolIdx |-> NULL]
  /\ route_table = TestRoutes
  /\ ctr = ZeroCtr

NextBind ==
  \/ \E ty \in {"STREAM", "DGRAM"} : SocketCall(1, ty)
  \/ \E s \in Slots, p \in BindPorts : BindCall(1, s, p)
  \/ \E s \in Slots : ListenCall(1, s)
  \/ \E s \in Slots : ConnectCall(1, s, LOCAL_NODE, SERVER_PORT)
  \/ ConnectWake(1)
  \/ ConnectTimeout(1)
  \/ ConnectRevert(1)
  \/ \E s \in Slots : CloseCall(1, s)

SpecBind == InitBind /\ [][NextBind]_vars

\* Some non-CLOSED socket holds port q.
PortHeld(q) ==
  \E i \in Slots :
    socket_pool[i].state # "CLOSED" /\ socket_pool[i].local_port = q

\* A bind of thread t returns in this step.
BindReturns(t) ==
  /\ ctr'.calls = ctr.calls + 1
  /\ thr'[t].pc = "idle"
  /\ thr'[t].op = "bind"

\* C11: bind(sock, p) with p > 0 succeeds exactly when p < MAX_PORTS and no
\* non-CLOSED socket holds p; bind(sock, 0) succeeds exactly when some port
\* of 1 .. 63 is held by no non-CLOSED socket and then assigns such a port;
\* a failed bind returns error and leaves the socket's local_port as it was.
C11_BindOutcome ==
  [][\A t \in Threads :
       BindReturns(t) =>
         LET s == thr'[t].sock
             p == thr'[t].cport
             ok == thr'[t].ret = 0
             got == socket_pool'[s].local_port
         IN /\ p > 0 => /\ ok <=> (p < DANP_MAX_PORTS /\ ~ PortHeld(p))
                        /\ ok => got = p
            /\ p = 0 => /\ ok <=> \E q \in 1 .. (DANP_MAX_PORTS - 1) :
                                     ~ PortHeld(q)
                        /\ ok => /\ got \in 1 .. (DANP_MAX_PORTS - 1)
                                 /\ ~ PortHeld(got)
            /\ ~ ok => /\ thr'[t].ret = -1
                       /\ got = socket_pool[s].local_port]_vars

\* Two ephemeral binds have taken the last two ports, the cursor has wrapped
\* to 1, and a bind to the first port above the range was refused.
C11_Witness ==
  /\ Idle(1) /\ thr[1].op = "bind" /\ thr[1].ret = -1
  /\ thr[1].cport = DANP_MAX_PORTS
  /\ PortHeld(DANP_MAX_PORTS - 2)
  /\ PortHeld(DANP_MAX_PORTS - 1)
  /\ next_ephemeral_port = 1

(***************************************************************************)
(* Socket lookup.  The run starts with the handshake of the stream test    *)
(* done over the synchronous loopback: listener, client and accepted child *)
(* are in the active list.  The application calls listen on any socket it  *)
(* holds, and connect on those in state OPEN.                              *)
(***************************************************************************)
\* Calls begun, and frames arriving from the far node, in one run of the
\* lookup specification.
MaxFindCalls == 3
MaxFindExt == 2

InitFind ==
  \E H \in {Handshaken} :
    /\ socket_pool = H.K.sp
    /\ socket_list = H.K.sl
    /\ next_ephemeral_port = H.K.nep
    /\ packet_free_map = H.K.fm
    /\ link = EmptyLink
    /\ txlog = << >>
    /\ ghost = H.K.gh
    /\ sync = TRUE
    /\ thr = [t \in Threads |-> IdleThread]
    /\ held = [i \in Slots |-> IF i \in {H.srv, H.cli, H.child} THEN 1 ELSE 0]
    /\ app_pkts = {}
    /\ packet_next = [i \in PoolIdx |-> NULL]
    /\ route_table = TestRoutes
    /\ ctr = [ZeroCtr EXCEPT !.cap = MaxFindCalls, !.extcap = MaxFindExt]

NextFind ==
  \/ \E ty \in {"STREAM", "DGRAM"} : SocketCall(1, ty)
  \/ \E s \in Slots : BindCall(1, s, 0)
  \/ \E s \in Slots : ListenCall(1, s)
  \/ \E s \in Slots : /\ socket_pool[s].state = "OPEN"
                       /\ ConnectCall(1, s, LOCAL_NODE, SERVER_PORT)
  \/ ConnectWake(1)
  \/ ConnectTimeout(1)
  \/ ConnectRevert(1)
  \/ \E s \in Slots : AcceptCall(1, s)
  \/ \E s \in Slots : CloseCall(1, s)
  \/ \E f \in ExtFrames : IngressFrame(f)

SpecFind == InitFind /\ [][NextFind]_vars

\* The keys the dispatcher looks sockets up by.
FindKeys ==
  {SERVER_PORT, CLIENT_PORT, 1} \X {LOCAL_NODE, REMOTE_NODE}
    \X {SERVER_PORT, CLIENT_PORT, FAR_PORT, 1}

\* Slot i is an exact match, a wildcard match, for key k.
ExactMatch(i, k) ==
  /\ socket_pool[i].local_port = k[1]
  /\ socket_pool[i].remote_node = k[2]
  /\ socket_pool[i].remote_port = k[3]
  /\ socket_pool[i].state \in {"ESTABLISHED", "SYN_SENT", "SYN_RECEIVED"}

WildMatch(i, k) ==
  /\ socket_pool[i].local_port = k[1]
  /\ \/ socket_pool[i].state = "LISTENING"
     \/ socket_pool[i].type = "DGRAM" /\ socket_pool[i].state = "OPEN"

\* C12: find_socket returns an exact match whenever one is in the active
\* list, a wildcard match only when no exact match is, and null when neither
\* is.
C12_FindExactFirst ==
  \A l \in {ActiveList(Kern)} :
    \A k \in FindKeys :
      LET r == danp_find_socket(Kern, k[1], k[2], k[3])
          exact == \E j \in DOMAIN l : ExactMatch(l[j], k)
          wild == \E j \in DOMAIN l : WildMatch(l[j], k)
      IN /\ exact => r # NULL /\ ExactMatch(r, k)
         /\ (~ exact /\ wild) => r # NULL /\ WildMatch(r, k)
         /\ (~ exact /\ ~ wild) => r = NULL

(***************************************************************************)
(* The buffer pool on its own.  The application gets records, links them   *)
(* into chains through their next fields, and frees records and chains.    *)
(* app_pkts is the set of records handed out by get and not freed since.   *)
(* The run starts with the pool full, or drained to its last record the     *)
(* way the exhaustion test drains it.                                      *)
(***************************************************************************)
\* Calls begun in one run of the pool specification.
MaxPoolCalls == 6

\* An address that is not a record of the pool: the one just past its end.
OUTSIDE == DANP_POOL_SIZE

\* The records the application links and frees by hand: the first two and
\* the last.
PoolTouch == {0, 1, DANP_POOL_SIZE - 1}

PoolDone(op, arg, arg2, ret) ==
  thr' = [thr EXCEPT ![1] = [IdleThread EXCEPT !.op = op, !.sock = arg,
                                               !.peer = arg2, !.ret = ret]]

PoolFrame ==
  /\ ctr.calls < ctr.cap
  /\ Bump("calls")
  /\ UNCHANGED << socket_pool, socket_list, next_ephemeral_port, link, txlog,
                  ghost, sync, held, route_table >>

InitPool ==
  /\ socket_pool = [i \in Slots |-> ZeroSocket]
  /\ socket_list = NULL
  /\ next_ephemeral_port = 1
  /\ \E keep \in {1, DANP_POOL_SIZE} :
        /\ packet_free_map = [i \in PoolIdx |-> i >= DANP_POOL_SIZE - keep]
        /\ app_pkts = {i \in PoolIdx : ~ packet_free_map[i]}
  /\ link = EmptyLink
  /\ txlog = << >>
  /\ ghost = [i \in Slots |-> ZeroGhost]
  /\ sync = TRUE
  /\ thr = [t \in Threads |-> IdleThread]
  /\ held = [i \in Slots |-> 0]
  /\ packet_next = [i \in PoolIdx |-> NULL]
  /\ route_table = TestRoutes
  /\ ctr = [ZeroCtr EXCEPT !.cap = MaxPoolCalls]

PoolGet ==
  /\ PoolFrame
  /\ \E g \in {danp_buffer_get(packet_free_map)} :
        /\ packet_free_map' = g.fm
        /\ app_pkts' = IF g.pkt = NULL THEN app_pkts
                       ELSE app_pkts \cup {g.pkt}
        /\ PoolDone("get", NULL, NULL, g.pkt)
  /\ UNCHANGED packet_next

\* The application sets the next field of a record it holds.
PoolLink(a, b) ==
  /\ PoolFrame
  /\ a \in app_pkts
  /\ b \in (app_pkts \ {a}) \cup {NULL}
  /\ ~ OnCycle([packet_next EXCEPT ![a] = b], a)
  /\ packet_next' = [packet_next EXCEPT ![a] = b]
  /\ PoolDone("link", a, b, 0)
  /\ UNCHANGED << packet_free_map, app_pkts >>

PoolFree(x) ==
  /\ PoolFrame
  /\ packet_free_map' = danp_buffer_free(packet_free_map, x)
  /\ app_pkts' = app_pkts \ {x}
  /\ PoolDone("free", x, NULL, 0)
  /\ UNCHANGED packet_next

PoolFreeChain(x) ==
  /\ PoolFrame
  /\ x \in app_pkts \cup {NULL}
  /\ packet_free_map' = danp_buffer_free_chain(packet_free_map, packet_next,
                                               x, DANP_POOL_SIZE)
  /\ app_pkts' = app_pkts \ ChainOf(packet_next, x, DANP_POOL_SIZE)
  /\ PoolDone("free_chain", x, NULL, 0)
  /\ UNCHANGED packet_next

NextPool ==
  \/ PoolGet
  \/ \E a \in PoolTouch, b \in PoolTouch \cup {NULL} : PoolLink(a, b)
  \/ \E x \in PoolTouch \cup {NULL, OUTSIDE} : PoolFree(x)
  \/ \E x \in PoolTouch \cup {NULL} : PoolFreeChain(x)

SpecPool == InitPool /\ [][NextPool]_vars

\* C13: free_count equals POOL_SIZE minus the number of records handed out
\* by get and not yet freed; free(null), free_chain(null), freeing a record
\* that is free and freeing an address outside the pool leave the free map
\* as it was.
C13_PoolConservation ==
  /\ [](danp_buffer_get_free_count(packet_free_map)
          = DANP_POOL_SIZE - Cardinality(app_pkts))
  /\ [][\A x \in PoolTouch \cup {NULL, OUTSIDE} :
          /\ (PoolFree(x) /\ (x \in {NULL, OUTSIDE} \/ packet_free_map[x]))
             => packet_free_map' = packet_free_map
          /\ (PoolFreeChain(x) /\ x = NULL)
             => packet_free_map' = packet_free_map]_vars

\* A chain of two records has been freed as a chain and the pool is full
\* again.
C13_Witness ==
  /\ thr[1].op = "free_chain"
  /\ thr[1].sock # NULL
  /\ packet_next[thr[1].sock] # NULL
  /\ app_pkts = {}
  /\ danp_buffer_get_free_count(packet_free_map) = DANP_POOL_SIZE

\* C14: get returns null exactly when all POOL_SIZE records are held, and
\* otherwise a record that is not held; so after a held record is freed the
\* next get returns a record.
C14_GetDistinct ==
  [][PoolGet =>
       /\ thr'[1].ret = NULL <=> app_pkts = PoolIdx
       /\ thr'[1].ret # NULL => /\ thr'[1].ret \in PoolIdx \ app_pkts
                                /\ app_pkts' = app_pkts \cup {thr'[1].ret}]_vars

\* The pool was exhausted, record 0 was freed, and the next get returned
\* it: all records are held again.
C14_Witness ==
  /\ thr[1].op = "get"
  /\ thr[1].ret = 0
  /\ app_pkts = PoolIdx
  /\ ctr.calls >= 3

\* C15: every packet returned by danp_buffer_get has a null next link.
C15_GetNextNull ==
  (thr[1].op = "get" /\ thr[1].ret # NULL) => packet_next[thr[1].ret] = NULL

(***************************************************************************)
(* The datagram engine.  The run starts as the datagram tests do: DGRAM    *)
(* sockets A (CLIENT_PORT) and B (SERVER_PORT) and a stream socket, all    *)
(* bound, the loopback synchronous.  B's queue may already hold datagrams  *)
(* A sent, and the application may hold pool records of its own.           *)
(* Payloads are named by numbers, those of sendto from PAYLOAD_BASE on.    *)
(***************************************************************************)
MaxDgramCalls == 3
MaxFill == RX_QUEUE_DEPTH - 1
PAYLOAD_BASE == 16
STREAM_PORT == 1

\* danp_send_to without its two argument checks.
danp_send_to_no_check(K0, s, data, len, dst_node, dst_port) ==
  With(K0, LAMBDA K :
    LET g == danp_buffer_get(K.fm)
        sock == K.sp[s]
        frame == [hdr |-> danpPackHeader(0, dst_node, sock.local_node,
                                         dst_port, sock.local_port,
                                         DANP_FLAG_NONE),
                  len |-> len, p0 |-> data % SEQ_MODULUS, body |-> data]
    IN IF g.pkt = NULL THEN [K EXCEPT !.ret = -1]
       ELSE [danp_route_tx([K EXCEPT !.fm = g.fm], frame) EXCEPT
               !.fm = danp_buffer_free(@, g.pkt), !.ret = len])

danp_send_to(K0, s, data, len, dst_node, dst_port) ==
  With(K0, LAMBDA K :
    LET g == danp_buffer_get(K.fm)
        sock == K.sp[s]
        frame == [hdr |-> danpPackHeader(0, dst_node, sock.local_node,
                                         dst_port, sock.local_port,
                                         DANP_FLAG_NONE),
                  len |-> len, p0 |-> data % SEQ_MODULUS, body |-> data]
    IN IF sock.type # "DGRAM" THEN [K EXCEPT !.ret = -1]
       ELSE IF len > DANP_MAX_PACKET_SIZE - 1 THEN [K EXCEPT !.ret = -1]
       ELSE IF g.pkt = NULL THEN [K EXCEPT !.ret = -1]
       ELSE [danp_route_tx([K EXCEPT !.fm = g.fm], frame) EXCEPT
               !.fm = danp_buffer_free(@, g.pkt), !.ret = len])

\* danp_recv_from that leaves the entry in the queue.
danp_recv_from_no_pop(K, s, max_len) ==
  LET pkt == Head(K.sp[s].rx_queue)
      copy_len == IF pkt.len > max_len THEN max_len ELSE pkt.len
  IN [K EXCEPT !.gh[s].deliv = Append(@, pkt.body), !.ret = copy_len]

\* danp_recv_from once a queue entry is there: the state after, ret = bytes
\* copied.
danp_recv_from(K, s, max_len) ==
  LET pkt == Head(K.sp[s].rx_queue)
      copy_len == IF pkt.len > max_len THEN max_len ELSE pkt.len
  IN [K EXCEPT !.sp[s].rx_queue = Tail(@),
               !.fm = danp_buffer_free(K.fm, pkt.idx),
               !.gh[s].deliv = Append(@, pkt.body),
               !.ret = copy_len]

SendToCall(t, s, len, dst_node, dst_port) ==
  /\ Idle(t)
  /\ ctr.calls < ctr.cap
  /\ held[s] = t
  /\ \E K \in {danp_send_to(Begin, s, PAYLOAD_BASE + ctr.calls, len,
                            dst_node, dst_port)} :
        /\ Commit(K)
        /\ thr' = [thr EXCEPT ![t] =
                     [Done(t, "sendto", s, K.ret) EXCEPT
                        !.data = PAYLOAD_BASE + ctr.calls, !.len = len,
                        !.peer = dst_node, !.cport = dst_port]]
  /\ Bump("calls")
  /\ UNCHANGED << held, app_pkts, packet_next, route_table >>

\* danp_recv_from whose timeout runs out when the queue is empty.  peer and
\* cport are the source the call wrote through its pointers.
RecvFromCall(t, s, max_len) ==
  /\ Idle(t)
  /\ ctr.calls < ctr.cap
  /\ held[s] = t
  /\ IF socket_pool[s].type # "DGRAM" \/ socket_pool[s].rx_queue = << >>
     THEN /\ Commit(Begin)
          /\ thr' = [thr EXCEPT ![t] = Done(t, "recvfrom", s, -1)]
     ELSE \E K \in {danp_recv_from(Begin, s, max_len)} :
             /\ Commit(K)
             /\ thr' = [thr EXCEPT ![t] =
                  [Done(t, "recvfrom", s, K.ret) EXCEPT
                     !.ack = TRUE,
                     !.data = Head(socket_pool[s].rx_queue).body,
                     !.len = max_len,
                     !.peer = danpUnpackHeader(
                                Head(socket_pool[s].rx_queue).hdr).src,
                     !.cport = danpUnpackHeader(
                                 Head(socket_pool[s].rx_queue).hdr).src_port]]
  /\ Bump("calls")
  /\ UNCHANGED << held, app_pkts, packet_next, route_table >>

RECURSIVE DgramFill(_, _, _, _)
DgramFill(K, a, port, n) ==
  IF n = 0 THEN K
  ELSE danp_send_to(DgramFill(K, a, port, n - 1), a,
                    2 * PAYLOAD_BASE + n, n, LOCAL_NODE, port)

\* fill datagrams wait in B's queue.
DgramStart(fill) ==
  LET A == danp_socket(Base, "DGRAM")
      A1 == danp_bind(A, A.ret, CLIENT_PORT)
      B == danp_socket(A1, "DGRAM")
      B1 == danp_bind(B, B.ret, SERVER_PORT)
      S == danp_socket(B1, "STREAM")
      S1 == danp_bind(S, S.ret, STREAM_PORT)
  IN [DgramFill(S1, A.ret, SERVER_PORT, fill) EXCEPT !.txlog = << >>]

InitDgram ==
  \E fill \in {0, MaxFill}, keep \in {1, DANP_POOL_SIZE} :
    \E K \in {DgramStart(fill)} :
      /\ socket_pool = K.sp
      /\ socket_list = K.sl
      /\ next_ephemeral_port = K.nep
      /\ packet_free_map = GetDownTo(K.fm, keep)
      /\ app_pkts = {i \in PoolIdx : K.fm[i] /\ ~ packet_free_map[i]}
      /\ link = EmptyLink
      /\ txlog = << >>
      /\ ghost = K.gh
      /\ sync = TRUE
      /\ thr = [t \in Threads |-> IdleThread]
      /\ held = [i \in Slots |-> IF K.sp[i].state = "OPEN" THEN 1 ELSE 0]
      /\ packet_next = [i \in PoolIdx |-> NULL]
      /\ route_table = TestRoutes
      /\ ctr = [ZeroCtr EXCEPT !.cap = MaxDgramCalls,
                                !.sends = MaxSends - 1,
                                !.recvs = MaxRecvs - 1]

DgramLens == {0, 1, DANP_MAX_PACKET_SIZE - 1, DANP_MAX_PACKET_SIZE}
DgramDests == {<<LOCAL_NODE, SERVER_PORT>>, <<LOCAL_NODE, CLIENT_PORT>>,
               <<REMOTE_NODE, SERVER_PORT>>}

NextDgram ==
  \/ SocketCall(1, "DGRAM")
  \/ \E s \in Slots, len \in DgramLens, d \in DgramDests :
        SendToCall(1, s, len, d[1], d[2])
  \/ \E s \in Slots, m \in {1, DANP_MAX_PACKET_SIZE} :
        RecvFromCall(1, s, m)
  \/ \E s \in Slots, len \in {1, DANP_MAX_PACKET_SIZE} :
        socket_pool[s].type = "DGRAM" /\ SendCall(1, s, len)
  \/ \E s \in Slots : RecvCall(1, s, FALSE)
  \/ \E s \in Slots :
        socket_pool[s].type = "DGRAM"
        /\ ConnectCall(1, s, LOCAL_NODE, SERVER_PORT)

SpecDgram == InitDgram /\ [][NextDgram]_vars

\* The source coordinates a queued datagram carries in its header.
SrcOf(x) == << danpUnpackHeader(x.hdr).src, danpUnpackHeader(x.hdr).src_port >>

\* d is a bound DGRAM socket in state OPEN at (node, port).
DgramBound(d, node, port) ==
  /\ socket_pool[d].type = "DGRAM"
  /\ socket_pool[d].state = "OPEN"
  /\ port # 0
  /\ socket_pool[d].local_port = port
  /\ socket_pool[d].local_node = node
  /\ Linked(d)

\* This step is a call of sendto, or of recvfrom, that returned at once.
SendToReturns ==
  ctr'.calls = ctr.calls + 1 /\ thr'[1].pc = "idle" /\ thr'[1].op = "sendto"

RecvFromReturns ==
  ctr'.calls = ctr.calls + 1 /\ thr'[1].pc = "idle" /\ thr'[1].op = "recvfrom"

\* This step is a sendto of socket s that reported len bytes sent.
SentTo(s, len, node, port) ==
  /\ SendToReturns
  /\ thr'[1].sock = s
  /\ thr'[1].len = len
  /\ thr'[1].peer = node
  /\ thr'[1].cport = port
  /\ thr'[1].ret = len

\* The step put the datagram just sent at the tail of d's queue, its length
\* and source as the sender gave them.
Arrives(s, d, len) ==
  LET q == socket_pool[d].rx_queue
      r == socket_pool'[d].rx_queue
  IN /\ Len(r) = Len(q) + 1
     /\ SubSeq(r, 1, Len(q)) = q
     /\ r[Len(r)].body = thr'[1].data
     /\ r[Len(r)].len = len
     /\ SrcOf(r[Len(r)]) = << socket_pool[s].local_node,
                              socket_pool[s].local_port >>

\* A recvfrom on a queue that holds a datagram the buffer has room for
\* returns the head of the queue: its payload, length and source.
ReturnsHead ==
  \A s \in {thr'[1].sock}, m \in {thr'[1].len} :
    (/\ RecvFromReturns
     /\ socket_pool[s].type = "DGRAM"
     /\ socket_pool[s].rx_queue # << >>
     /\ Head(socket_pool[s].rx_queue).len <= m)
    => LET x == Head(socket_pool[s].rx_queue)
       IN /\ socket_pool'[s].rx_queue = Tail(socket_pool[s].rx_queue)
          /\ thr'[1].data = x.body
          /\ thr'[1].ret = x.len
          /\ << thr'[1].peer, thr'[1].cport >> = SrcOf(x)

\* The queue of a DGRAM socket only grows at its tail and shrinks at its
\* head.
QueueOrderly ==
  \A d \in Slots :
    socket_pool[d].type = "DGRAM" /\ socket_pool'[d].type = "DGRAM"
    => LET q == socket_pool[d].rx_queue
           r == socket_pool'[d].rx_queue
       IN \/ r = q
          \/ q # << >> /\ r = Tail(q)
          \/ Len(r) = Len(q) + 1 /\ SubSeq(r, 1, Len(q)) = q

\* C16: a datagram sent with sendto to a bound DGRAM socket in state OPEN
\* whose queue holds fewer than 10 datagrams joins the tail of that queue
\* with payload, length and source (sender's node and port) unchanged, and
\* recvfrom returns the datagrams from the head of the queue: the datagrams
\* come back in the order sent.
C16_DgramFifo ==
  [][/\ \A s \in {thr'[1].sock}, d \in Slots, len \in {thr'[1].len},
            dst \in {<< thr'[1].peer, thr'[1].cport >>} :
          (/\ SentTo(s, len, dst[1], dst[2])
           /\ DgramBound(d, dst[1], dst[2])
           /\ Len(socket_pool[d].rx_queue) < RX_QUEUE_DEPTH)
          => Arrives(s, d, len)
     /\ ReturnsHead
     /\ QueueOrderly]_vars

\* C16 as the code has it: the same, for a datagram of 1 byte or more that
\* fits the interface's MTU with its header, sent while two pool records
\* are free, to the socket the dispatcher's lookup finds for it.
C16_DgramFifoDelivered ==
  [][/\ \A s \in {thr'[1].sock}, d \in Slots, len \in {thr'[1].len},
            dst \in {<< thr'[1].peer, thr'[1].cport >>} :
          (/\ SentTo(s, len, dst[1], dst[2])
           /\ DgramBound(d, dst[1], dst[2])
           /\ Len(socket_pool[d].rx_queue) < RX_QUEUE_DEPTH
           /\ len >= 1
           /\ len + DANP_HEADER_SIZE <= IFACE_MTU
           /\ danp_buffer_get_free_count(packet_free_map) >= 2
           /\ d = danp_find_socket(Kern, dst[2], socket_pool[s].local_node,
                                   socket_pool[s].local_port))
          => Arrives(s, d, len)
     /\ ReturnsHead
     /\ QueueOrderly]_vars

\* Ten datagrams waited in B's queue, the last of them sent in this run,
\* and recvfrom has returned the first one sent, from A.
C16_Witness ==
  /\ thr[1].op = "recvfrom"
  /\ thr[1].ret = 1
  /\ thr[1].data = 2 * PAYLOAD_BASE + 1
  /\ << thr[1].peer, thr[1].cport >> = << LOCAL_NODE, CLIENT_PORT >>
  /\ Len(socket_pool[thr[1].sock].rx_queue) = RX_QUEUE_DEPTH - 1
  /\ socket_pool[thr[1].sock].rx_queue[RX_QUEUE_DEPTH - 1].body
       \in PAYLOAD_BASE .. (PAYLOAD_BASE + MaxDgramCalls)

\* C17: recvfrom and recv whose timeout runs out on an empty queue return a
\* negative value and leave the queue and the pool as they were.
C17_TimeoutIsError ==
  [][\A s \in {thr'[1].sock} :
       (/\ s # NULL
        /\ socket_pool[s].rx_queue = << >>
        /\ \/ RecvFromReturns
           \/ /\ ctr'.recvs = ctr.recvs + 1
              /\ thr'[1].pc = "idle"
              /\ thr'[1].op = "recv")
       => /\ thr'[1].ret < 0
          /\ socket_pool'[s].rx_queue = << >>
          /\ packet_free_map' = packet_free_map]_vars

\* C18: sendto on a socket that is not DGRAM, or with len > 127, returns an
\* error, takes no pool record, calls no tx callback and leaves the socket
\* table as it was.
C18_SendToRejects ==
  [][\A s \in {thr'[1].sock}, len \in {thr'[1].len} :
       (/\ SendToReturns
        /\ \/ socket_pool[s].type # "DGRAM"
           \/ len > DANP_MAX_PACKET_SIZE - 1)
       => /\ thr'[1].ret < 0
          /\ packet_free_map' = packet_free_map
          /\ txlog' = << >>
          /\ socket_pool' = socket_pool]_vars

\* A sendto of 128 bytes on a DGRAM socket was refused while the pool had
\* records to give.
C18_Witness ==
  /\ thr[1].op = "sendto"
  /\ thr[1].ret = -1
  /\ thr[1].len = DANP_MAX_PACKET_SIZE
  /\ socket_pool[thr[1].sock].type = "DGRAM"
  /\ danp_buffer_get_free_count(packet_free_map) > 1

\* C19: send on a DGRAM socket that was never connected returns an error
\* and transmits no frame; on a connected one it does what sendto to the
\* stored peer does.
C19_SendNeedsPeer ==
  [][\A s \in Slots, len \in {1, DANP_MAX_PACKET_SIZE} :
       /\ (/\ SendCall(1, s, len)
           /\ socket_pool[s].type = "DGRAM"
           /\ socket_pool[s].state = "OPEN"
           /\ socket_pool[s].remote_node = 0
           /\ socket_pool[s].remote_port = 0)
          => thr'[1].ret < 0 /\ txlog' = << >>
       /\ (/\ SendCall(1, s, len)
           /\ socket_pool[s].type = "DGRAM"
           /\ socket_pool[s].state = "ESTABLISHED")
          => \E K \in {danp_send_to(Begin, s, ctr.sends + 1, len,
                                    socket_pool[s].remote_node,
                                    socket_pool[s].remote_port)} :
                /\ socket_pool' = K.sp
                /\ packet_free_map' = K.fm
                /\ txlog' = K.txlog
                /\ thr'[1].ret = K.ret]_vars

(***************************************************************************)
(* The static routing table.  A string is the sequence of its characters,  *)
(* a pointer to a string the set of what it points at ({} is the null      *)
(* pointer).  The interfaces of the routing tests are registered under the *)
(* names A and B.                                                          *)
(***************************************************************************)
MaxRouteCalls == 3
DANP_MAX_NODES == 256
UINT16_MAX == 65535

danp_trim(str) ==
  LET keep == {i \in DOMAIN str : str[i] \notin {" ", "\t"}}
  IN IF keep = {} THEN << >>
     ELSE SubSeq(str, Min(keep), CHOOSE j \in keep : \A k \in keep : k <= j)

\* The tokens strtok_r hands out for the delimiters newline and comma.
strtok_r(str) ==
  LET delim(i) == str[i] \in {"\n", ","}
      starts == {i \in DOMAIN str : ~ delim(i) /\ (i = 1 \/ delim(i - 1))}
      endOf(i) == Min({j \in i .. Len(str) : j = Len(str) \/ delim(j + 1)})
      kth(k) == CHOOSE i \in starts : Cardinality({j \in starts : j < i}) = k - 1
  IN [k \in 1 .. Cardinality(starts) |-> SubSeq(str, kth(k), endOf(kth(k)))]

\* strchr: the index of the first c in str, 0 when there is none.
strchr(str, c) ==
  IF \E i \in DOMAIN str : str[i] = c
  THEN Min({i \in DOMAIN str : str[i] = c})
  ELSE 0

\* The value of a digit character (16: not a digit of any base).
DigitOf(c) ==
  LET hex == << "0", "1", "2", "3", "4", "5", "6", "7", "8", "9",
                "a", "b", "c", "d", "e", "f" >>
  IN IF \E i \in DOMAIN hex : hex[i] = c
     THEN (CHOOSE i \in DOMAIN hex : hex[i] = c) - 1
     ELSE 16

RECURSIVE DigitsValue(_, _)
DigitsValue(ds, base) ==
  IF ds = << >> THEN 0
  ELSE DigitsValue(SubSeq(ds, 1, Len(ds) - 1), base) * base
       + DigitOf(ds[Len(ds)])

\* strtoul with base 0: val is the value, end the rest of the string that
\* was not converted.  A negated value is 2^64 - magnitude in the code; here
\* it is a value above UINT16_MAX, which is all the caller tests.
strtoul(str) ==
  LET signed == str # << >> /\ str[1] \in {"+", "-"}
      body == IF signed THEN Tail(str) ELSE str
      hex == /\ Len(body) >= 3
             /\ body[1] = "0"
             /\ body[2] = "x"
             /\ DigitOf(body[3]) < 16
      base == IF hex THEN 16
              ELSE IF body # << >> /\ body[1] = "0" THEN 8 ELSE 10
      num == IF hex THEN SubSeq(body, 3, Len(body)) ELSE body
      n == Cardinality({i \in DOMAIN num :
                          \A j \in 1 .. i : DigitOf(num[j]) < base})
      mag == DigitsValue(SubSeq(num, 1, n), base)
  IN IF n = 0 THEN [val |-> 0, end |-> str]
     ELSE [val |-> IF signed /\ str[1] = "-" /\ mag > 0
                   THEN UINT16_MAX + 1 ELSE mag,
           end |-> SubSeq(num, n + 1, Len(num))]

danp_find_interface_by_name(name) ==
  IF name = << "A" >> THEN "IFACE_A"
  ELSE IF name = << "B" >> THEN "IFACE_B"
  ELSE "none"

\* An error return of the parse loop that leaves what was parsed.
RouteFail_keep(rt) == [rt |-> rt, ret |-> -1]

\* An error return of the parse loop: route_count = 0.
RouteFail(rt) == [rt |-> << >>, ret |-> -1]

\* An entry that is always appended.
RouteInsert_append(rt, entry) == Append(rt, entry)

\* A parsed entry goes into the table: over the entry of the same
\* destination when there is one, at the end otherwise.
RouteInsert(rt, entry) ==
  IF \E i \in DOMAIN rt : rt[i].dest_node = entry.dest_node
  THEN [rt EXCEPT ![Min({i \in DOMAIN rt : rt[i].dest_node = entry.dest_node})]
                    = entry]
  ELSE Append(rt, entry)

\* The parse loop: rt is the table so far, toks the tokens still to come.
RECURSIVE RouteParse(_, _)
RouteParse(rt, toks) ==
  IF toks = << >> THEN [rt |-> rt, ret |-> 0]
  ELSE
    LET working == danp_trim(Head(toks))
        separator == strchr(working, ":")
        dest_str == danp_trim(SubSeq(working, 1, separator - 1))
        iface_str == danp_trim(SubSeq(working, separator + 1, Len(working)))
        dest == strtoul(dest_str)
        iface == danp_find_interface_by_name(iface_str)
        entry == [dest_node |-> dest.val, iface |-> iface]
    IN IF working = << >> THEN RouteParse(rt, Tail(toks))
       ELSE IF separator = 0 THEN RouteFail(rt)
       ELSE IF dest_str = << >> \/ iface_str = << >> THEN RouteFail(rt)
       ELSE IF dest.end # << >> \/ dest.val > UINT16_MAX THEN RouteFail(rt)
       ELSE IF Len(rt) >= DANP_MAX_NODES THEN RouteFail(rt)
       ELSE IF iface = "none" THEN RouteFail(rt)
       ELSE RouteParse(RouteInsert(rt, entry), Tail(toks))

\* danp_route_table_load: the table after and the value returned.  nomem
\* tells that malloc fails.
danp_route_table_load(rt, table, nomem) ==
  IF table = {} THEN [rt |-> rt, ret |-> -1]
  ELSE LET str == CHOOSE s \in table : TRUE
       IN IF str = << >> THEN [rt |-> << >>, ret |-> 0]
          ELSE IF nomem THEN [rt |-> rt, ret |-> -1]
          ELSE RouteParse(<< >>, strtok_r(str))

\* The entries the tables of the runs are made of, those of the routing
\* tests among them.
RouteEntries ==
  { << "5", "5", ":", "A" >>, << "5", "5", ":", "B" >>,
    << " ", "7", " ", ":", " ", "A", " " >>, << " " >>,
    << "0", "x", "3", "7", ":", "B" >>,
    << "7", ":", "B" >>,
    << "5", "5", "A" >>, << ":", "A" >>, << "5", "5", ":" >>,
    << "x", ":", "A" >>, << "7", "0", "0", "0", "0", ":", "A" >>,
    << "-", "7", ":", "A" >>, << "5", "5", ":", "U" >> }

RouteTables ==
  {{}} \cup {{ << >> }} \cup {{e} : e \in RouteEntries}
  \cup {{e \o << sep >> \o f} :
          e \in RouteEntries, f \in RouteEntries, sep \in {",", "\n"}}

\* Tables of three entries, where a destination comes back after another.
RouteTriples ==
  {{e \o << "," >> \o f \o << "\n" >> \o g} :
     e \in {<< "5", "5", ":", "A" >>, << "7", ":", "B" >>},
     f \in {<< "7", ":", "A" >>, << "5", "5", ":", "B" >>},
     g \in {<< "5", "5", ":", "B" >>, << " ", "7", " ", ":", " ", "A", " " >>}}

RouteDests == {7, 55, LOCAL_NODE}

\* The payload lengths handed to route_tx and the MTUs of IFACE_A.
RouteLens == {0, 28, 29, IFACE_MTU - DANP_HEADER_SIZE,
              IFACE_MTU - DANP_HEADER_SIZE + 1}
RouteMtus == {32, IFACE_MTU}

\* A call of the routing API made and returned; done is what the caller
\* keeps of it.
RouteFrame(done) ==
  /\ ctr.calls < ctr.cap
  /\ Bump("calls")
  /\ thr' = [thr EXCEPT ![1] = done]
  /\ UNCHANGED << socket_pool, socket_list, next_ephemeral_port,
                  packet_free_map, link, ghost, sync, held, app_pkts,
                  packet_next >>

\* pre tells that the call got as far as parsing, len how many entries the
\* table held before the call, data the string handed in.
RouteLoadCall(table, nomem) ==
  \E r \in {danp_route_table_load(route_table, table, nomem)} :
    /\ route_table' = r.rt
    /\ txlog' = << >>
    /\ RouteFrame([Done(1, "load", NULL, r.ret) EXCEPT
                     !.pre = table # {} /\ table # {<< >>} /\ ~ nomem,
                     !.len = Len(route_table), !.data = table])

\* The MTU of a registered interface; mtu_a is the one of IFACE_A.
RouteMtu(iface, mtu_a) == IF iface = "IFACE_A" THEN mtu_a ELSE IFACE_MTU

\* A route_tx that never looks at the MTU.
RouteTx_no_mtu(rt, mtu_a, dest, len, txret) ==
  IF RouteFind(rt, dest) = "none" THEN [ret |-> -1, tx |-> << >>]
  ELSE [ret |-> txret, tx |-> << RouteFind(rt, dest) >>]

\* danp_route_tx over the loaded table: the value returned and the
\* interfaces whose tx callback ran.  txret is what the callback returns.
RouteTx(rt, mtu_a, dest, len, txret) ==
  LET out == RouteFind(rt, dest)
  IN IF out = "none" THEN [ret |-> -1, tx |-> << >>]
     ELSE IF len + DANP_HEADER_SIZE > RouteMtu(out, mtu_a)
     THEN [ret |-> -1, tx |-> << >>]
     ELSE [ret |-> txret, tx |-> << out >>]

\* data is the destination of the packet, len its payload length, tick the
\* MTU of IFACE_A.
RouteTxCall(dest, len, mtu_a, txret) ==
  \E r \in {RouteTx(route_table, mtu_a, dest, len, txret)} :
    /\ txlog' = r.tx
    /\ RouteFrame([Done(1, "route_tx", NULL, r.ret) EXCEPT
                     !.data = dest, !.len = len, !.tick = mtu_a])
    /\ UNCHANGED route_table

InitRoute ==
  /\ socket_pool = [i \in Slots |-> ZeroSocket]
  /\ socket_list = NULL
  /\ next_ephemeral_port = 1
  /\ packet_free_map = [i \in PoolIdx |-> TRUE]
  /\ link = EmptyLink
  /\ txlog = << >>
  /\ ghost = [i \in Slots |-> ZeroGhost]
  /\ sync = TRUE
  /\ thr = [t \in Threads |-> IdleThread]
  /\ held = [i \in Slots |-> 0]
  /\ app_pkts = {}
  /\ packet_next = [i \in PoolIdx |-> NULL]
  /\ route_table = << >>
  /\ ctr = [ZeroCtr EXCEPT !.cap = MaxRouteCalls]

NextRoute ==
  \/ \E table \in RouteTables \cup RouteTriples, nomem \in BOOLEAN :
       RouteLoadCall(table, nomem)
  \/ \E dest \in RouteDests, len \in RouteLens, mtu_a \in RouteMtus,
        txret \in {0, -1} :
       RouteTxCall(dest, len, mtu_a, txret)

SpecRoute == InitRoute /\ [][NextRoute]_vars

\* This step is a call of route_table_load that returned an error.
RouteLoadFails ==
  ctr'.calls = ctr.calls + 1 /\ thr'[1].op = "load" /\ thr'[1].ret < 0

\* C20: whenever route_table_load returns an error the routing table is
\* empty afterwards, so route_tx finds no route for any destination.
C20_FailedLoadEmpties ==
  [][RouteLoadFails
     => /\ route_table' = << >>
        /\ \A dest \in RouteDests : RouteFind(route_table', dest) = "none"]_vars

\* C20 as the code has it: whenever route_table_load returns an error from
\* parsing a table string, the routing table is empty afterwards.
C20_FailedParseEmpties ==
  [][(RouteLoadFails /\ thr'[1].pre)
     => /\ route_table' = << >>
        /\ \A dest \in RouteDests : RouteFind(route_table', dest) = "none"]_vars

\* A table was loaded, and a load that got as far as parsing has failed and
\* left the table empty.
C20_Witness ==
  /\ thr[1].op = "load"
  /\ thr[1].ret = -1
  /\ thr[1].pre
  /\ thr[1].len = 2
  /\ route_table = << >>

\* The entry a token of a table string names.
RouteEntryOf(tok) ==
  LET working == danp_trim(tok)
      separator == strchr(working, ":")
  IN [dest_node |-> strtoul(danp_trim(SubSeq(working, 1, separator - 1))).val,
      iface |-> danp_find_interface_by_name(
                  danp_trim(SubSeq(working, separator + 1, Len(working))))]

\* The entries of a table string, in the order of the string.
RoutePairs(str) ==
  LET live == SelectSeq(strtok_r(str), LAMBDA tok : danp_trim(tok) # << >>)
  IN [k \in DOMAIN live |-> RouteEntryOf(live[k])]

\* Where a destination first appears among the entries of a string.
FirstAt(P, dest) == Min({k \in DOMAIN P : P[k].dest_node = dest})

\* C21: after a successful route_table_load the table holds each
\* destination of the loaded string once, with the interface of the
\* destination's last entry in the string, the destinations in the order
\* of their first appearance, and nothing of an earlier table.
C21_LoadedTable ==
  (thr[1].op = "load" /\ thr[1].ret = 0) =>
    \E P \in {RoutePairs(CHOOSE str \in thr[1].data : TRUE)} :
      /\ \A i, j \in DOMAIN route_table :
           route_table[i].dest_node = route_table[j].dest_node => i = j
      /\ \A k \in DOMAIN P :
           \E i \in DOMAIN route_table :
             route_table[i].dest_node = P[k].dest_node
      /\ \A i \in DOMAIN route_table :
           \E k \in DOMAIN P :
             /\ P[k].dest_node = route_table[i].dest_node
             /\ \A m \in DOMAIN P :
                  m > k => P[m].dest_node # P[k].dest_node
             /\ P[k].iface = route_table[i].iface
      /\ \A i, j \in DOMAIN route_table :
           i < j => FirstAt(P, route_table[i].dest_node)
                      < FirstAt(P, route_table[j].dest_node)

\* A table of three entries was loaded over a table with another
\* destination: the destination named twice is there once, first, with its
\* last interface.
C21_Witness ==
  /\ thr[1].op = "load"
  /\ thr[1].ret = 0
  /\ thr[1].len = 1
  /\ thr[1].data = {<< "5", "5", ":", "A" >> \o << "," >>
                      \o << "7", ":", "A" >> \o << "\n" >>
                      \o << "5", "5", ":", "B" >>}
  /\ route_table = << [dest_node |-> 55, iface |-> "IFACE_B"],
                      [dest_node |-> 7, iface |-> "IFACE_A"] >>

\* C22: route_tx returns an error and runs no tx callback when the
\* destination has no route or the header and the payload together exceed
\* the MTU of the routed interface; otherwise it runs the tx callback of
\* the routed interface once and no other.
C22_RouteTxChecks ==
  [][(ctr'.calls = ctr.calls + 1 /\ thr'[1].op = "route_tx")
     => \E out \in {RouteFind(route_table, thr'[1].data)} :
          IF out = "none"
             \/ DANP_HEADER_SIZE + thr'[1].len > RouteMtu(out, thr'[1].tick)
          THEN thr'[1].ret < 0 /\ txlog' = << >>
          ELSE txlog' = << out >>]_vars

\* A packet of the largest payload the MTU of 32 lets through went out on
\* IFACE_A alone.
C22_Witness ==
  /\ thr[1].op = "route_tx"
  /\ thr[1].ret = 0
  /\ thr[1].tick = 32
  /\ thr[1].len = 32 - DANP_HEADER_SIZE
  /\ txlog = << "IFACE_A" >>

\* A packet one byte over the MTU of 32 was refused and no callback ran.
C22_WitnessOver ==
  /\ thr[1].op = "route_tx"
  /\ thr[1].ret = -1
  /\ thr[1].tick = 32
  /\ thr[1].len = 32 - DANP_HEADER_SIZE + 1
  /\ RouteFind(route_table, thr[1].data) = "IFACE_A"
  /\ txlog = << >>

(***************************************************************************)
(* The header codec on its own: one header is packed from inputs inside    *)
(* and outside the field widths, then unpacked.                            *)
(***************************************************************************)
MaxCodecCalls == 1

CodecPrios == {DANP_PRIORITY_NORMAL, DANP_PRIORITY_HIGH, 3}
CodecDsts == {0, 171, 255, 256 + 18}
CodecSrcs == {0, 255, 256}
CodecDstPorts == {0, 63, 64 + 5}
CodecSrcPorts == {0, 63, 255}
CodecFlags == {0, 3, DANP_FLAG_RST, 7, 8, 15, 255}

\* data keeps the inputs, txlog the header packed from them.
PackCall(prio, dst, src, dstPort, srcPort, flags) ==
  /\ ctr.calls < ctr.cap
  /\ Bump("calls")
  /\ txlog' = << danpPackHeader(prio, dst, src, dstPort, srcPort, flags) >>
  /\ thr' = [thr EXCEPT ![1] = [Done(1, "pack", NULL, 0) EXCEPT
                                  !.data = << prio, dst, src, dstPort,
                                              srcPort, flags >>]]
  /\ UNCHANGED << socket_pool, socket_list, next_ephemeral_port,
                  packet_free_map, link, ghost, sync, held, app_pkts,
                  packet_next, route_table >>

\* peer keeps the fields read back from the header.
UnpackCall ==
  /\ thr[1].op = "pack"
  /\ thr' = [thr EXCEPT ![1].op = "unpack",
                        ![1].peer = danpUnpackHeader(txlog[1])]
  /\ UNCHANGED << socket_pool, socket_list, next_ephemeral_port,
                  packet_free_map, link, txlog, ghost, sync, held, app_pkts,
                  packet_next, route_table, ctr >>

InitCodec ==
  /\ socket_pool = [i \in Slots |-> ZeroSocket]
  /\ socket_list = NULL
  /\ next_ephemeral_port = 1
  /\ packet_free_map = [i \in PoolIdx |-> TRUE]
  /\ link = EmptyLink
  /\ txlog = << >>
  /\ ghost = [i \in Slots |-> ZeroGhost]
  /\ sync = TRUE
  /\ thr = [t \in Threads |-> IdleThread]
  /\ held = [i \in Slots |-> 0]
  /\ app_pkts = {}
  /\ packet_next = [i \in PoolIdx |-> NULL]
  /\ route_table = << >>
  /\ ctr = [ZeroCtr EXCEPT !.cap = MaxCodecCalls]

NextCodec ==
  \/ \E prio \in CodecPrios, dst \in CodecDsts, src \in CodecSrcs,
        dstPort \in CodecDstPorts, srcPort \in CodecSrcPorts,
        flags \in CodecFlags :
       PackCall(prio, dst, src, dstPort, srcPort, flags)
  \/ UnpackCall

SpecCodec == InitCodec /\ [][NextCodec]_vars

\* The inputs lie inside the field widths.
CodecInRange(a) ==
  /\ a[1] \in 0..1
  /\ a[2] \in 0..255
  /\ a[3] \in 0..255
  /\ a[4] \in 0..63
  /\ a[5] \in 0..63
  /\ a[6] \in 0..7

\* C27: for priority 0 or 1, nodes 0..255, ports 0..63 and flags 0..7,
\* unpacking the packed header gives back the destination node, source
\* node, destination port, source port and flags that went in; packing
\* all zeros gives the zero word.
C27_RoundTrip ==
  /\ (thr[1].op = "unpack" /\ CodecInRange(thr[1].data))
       => thr[1].peer = [dst |-> thr[1].data[2], src |-> thr[1].data[3],
                         dst_port |-> thr[1].data[4],
                         src_port |-> thr[1].data[5],
                         flags |-> thr[1].data[6]]
  /\ (thr[1].op = "pack" /\ thr[1].data = << 0, 0, 0, 0, 0, 0 >>)
       => txlog = << << 0, 0, 0, 0 >> >>

\* A header with the high priority, the reset flag and both low flags was
\* packed and read back.
C27_Witness ==
  /\ thr[1].op = "unpack"
  /\ thr[1].data = << DANP_PRIORITY_HIGH, 171, 255, 63, 63, 7 >>
  /\ thr[1].peer.flags = 7
  /\ thr[1].peer.dst = 171

\* Bits 30..0 of a header, and its bit 31.
HeaderLow(h) == h[1] + 256 * h[2] + 65536 * h[3] + 16777216 * (h[4] % 128)
HeaderTop(h) == h[4] \div 128

\* C28: pack masks every input to the width of its field (nodes mod 256,
\* ports mod 64, priority mod 2, flags to 3 bits) and writes the reset flag
\* to bit 31 alone, whatever the SYN and ACK bits: the header is the word
\* of the masked inputs, each field at its own place.
C28_PackMasks ==
  thr[1].op = "pack" =>
    \E a \in {thr[1].data} :
      /\ txlog[1] = danpPackHeader(a[1] % 2, a[2] % 256, a[3] % 256,
                                   a[4] % 64, a[5] % 64, a[6] % 8)
      /\ \A b \in 1..4 : txlog[1][b] \in 0..255
      /\ HeaderLow(txlog[1])
           = (a[1] % 2) * 1073741824 + (a[2] % 256) * 4194304
             + (a[3] % 256) * 16384 + (a[4] % 64) * 256 + (a[5] % 64) * 4
             + (a[6] % 4)
      /\ HeaderTop(txlog[1]) = (a[6] \div DANP_FLAG_RST) % 2

\* Every input was out of range and the header is that of the inputs
\* reduced to their fields.
C28_Witness ==
  /\ thr[1].op = "pack"
  /\ thr[1].data = << 3, 256 + 18, 256, 64 + 5, 255, 15 >>
  /\ txlog = << danpPackHeader(1, 18, 0, 5, 63, 7) >>

(***************************************************************************)
(* Frames handed to danp_input on the loopback interface while a server    *)
(* listens and one connection is established: frames shorter than a        *)
(* header, frames for another node, frames for the sockets; the pool is    *)
(* full or dry.  The loopback queues what the sockets answer.              *)
(***************************************************************************)
MaxInputExt == 2
OTHER_NODE == 2

\* A frame for one port of the connection comes from the other.
InputFrames ==
  { [hdr |-> danpPackHeader(0, dn, LOCAL_NODE, dp,
                            SERVER_PORT + CLIENT_PORT - dp, fl),
     len |-> l, p0 |-> p, body |-> 0] :
      dn \in {LOCAL_NODE, OTHER_NODE},
      dp \in {SERVER_PORT, CLIENT_PORT},
      fl \in {DANP_FLAG_NONE, DANP_FLAG_SYN, DANP_FLAG_ACK,
              DANP_FLAG_SYN + DANP_FLAG_ACK, DANP_FLAG_RST},
      l \in {2 - DANP_HEADER_SIZE, 0, 2}, p \in {0, 1, RX_QUEUE_DEPTH} }

\* n payloads were sent on the connection and none was received: the
\* child's queue holds them, both ends have counted them.
RECURSIVE StreamFill(_, _)
StreamFill(K, n) ==
  IF n = 0 THEN K
  ELSE danpInput(StreamFill(K, n - 1),
                 [hdr |-> danpPackHeader(0, LOCAL_NODE, LOCAL_NODE,
                                         SERVER_PORT, CLIENT_PORT,
                                         DANP_FLAG_NONE),
                  len |-> 2, p0 |-> n - 1, body |-> n])

InputStart(fill) ==
  With(Handshaken, LAMBDA H :
    [K |-> [StreamFill(H.K, fill) EXCEPT !.sp[H.cli].tx_seq = fill,
                                         !.sp[H.cli].signal = 0,
                                         !.txlog = << >>],
     srv |-> H.srv, cli |-> H.cli, child |-> H.child])

\* data and len keep the frame's header and payload length, seq0 its first
\* payload byte, pre whether the pool had a free record.
InputCall(f) ==
  /\ ctr.ext < ctr.extcap
  /\ \E K \in {danpInput(Begin, f)} : Commit(K)
  /\ thr' = [thr EXCEPT ![1] = [Done(1, "input", NULL, 0) EXCEPT
                                  !.data = f.hdr, !.len = f.len,
                                  !.seq0 = f.p0,
                                  !.pre = \E i \in PoolIdx :
                                            packet_free_map[i]]]
  /\ Bump("ext")
  /\ UNCHANGED << held, app_pkts, packet_next, route_table >>

\* The free records of fm the application has not taken when it leaves n.
LeaveFree(fm, n) ==
  [i \in PoolIdx |->
     fm[i] /\ Cardinality({j \in PoolIdx : fm[j] /\ j < i}) < n]

\* The free records the application leaves in the pool: none, one, all.
InputLeft == {0, 1, DANP_POOL_SIZE}

\* left: the free records the application does not hold.  fill: the
\* payloads that wait in the child's queue.
InputInit(cap) ==
  \E left \in InputLeft, fill \in {0, RX_QUEUE_DEPTH} :
  \E H \in {InputStart(fill)} :
    /\ socket_pool = H.K.sp
    /\ socket_list = H.K.sl
    /\ next_ephemeral_port = H.K.nep
    /\ packet_free_map = LeaveFree(H.K.fm, left)
    /\ link = EmptyLink
    /\ txlog = << >>
    /\ ghost = H.K.gh
    /\ sync = FALSE
    /\ thr = [t \in Threads |-> IdleThread]
    /\ held = [i \in Slots |-> IF i \in {H.srv, H.cli, H.child} THEN 1 ELSE 0]
    /\ app_pkts = {i \in PoolIdx : H.K.fm[i] /\ ~ LeaveFree(H.K.fm, left)[i]}
    /\ packet_next = [i \in PoolIdx |-> NULL]
    /\ route_table = TestRoutes
    /\ ctr = [ZeroCtr EXCEPT !.extcap = cap]

InitInput == InputInit(MaxInputExt)

NextInput ==
  \/ \E f \in InputFrames : InputCall(f)
  \/ Deliver

SpecInput == InitInput /\ [][NextInput]_vars

\* This step handed a frame to danp_input.
InputStep == ctr'.ext = ctr.ext + 1 /\ thr'[1].op = "input"

\* The pool's free count and every socket's state and queues stay as they
\* were.
InputLeavesAll ==
  /\ danp_buffer_get_free_count(packet_free_map')
       = danp_buffer_get_free_count(packet_free_map)
  /\ \A s \in Slots :
       /\ socket_pool'[s].state = socket_pool[s].state
       /\ socket_pool'[s].rx_queue = socket_pool[s].rx_queue
       /\ socket_pool'[s].accept_queue = socket_pool[s].accept_queue

\* C26: input leaves the pool's free count and every socket's state and
\* queues unchanged when the frame is shorter than a header, when the pool
\* has no free record, or when the header's destination node is not the
\* address of the receiving interface.
C26_InputDrops ==
  [][(InputStep
      /\ (\/ thr'[1].len < 0
          \/ ~ thr'[1].pre
          \/ danpUnpackHeader(thr'[1].data).dst # LOCAL_NODE))
     => InputLeavesAll]_vars

\* A SYN for the listening port but for another node came in while the
\* pool had free records, and no child socket was made.
C26_Witness ==
  /\ thr[1].op = "input"
  /\ thr[1].pre
  /\ thr[1].len = 0
  /\ thr[1].data = danpPackHeader(0, OTHER_NODE, LOCAL_NODE, SERVER_PORT,
                                  CLIENT_PORT, DANP_FLAG_SYN)
  /\ ctr.ext = 1
  /\ \A s \in Slots : socket_pool[s].state # "SYN_RECEIVED"

\* The stream socket in ESTABLISHED that the data frame of this step is
\* for, as a set: empty when the step brings no such frame.
DataTarget ==
  IF /\ InputStep
     /\ thr'[1].pre
     /\ thr'[1].len > 0
     /\ danpUnpackHeader(thr'[1].data).dst = LOCAL_NODE
     /\ danpUnpackHeader(thr'[1].data).flags = DANP_FLAG_NONE
  THEN {s \in {danp_find_socket(Kern, danpUnpackHeader(thr'[1].data).dst_port,
                                danpUnpackHeader(thr'[1].data).src,
                                danpUnpackHeader(thr'[1].data).src_port)} :
          /\ s # NULL
          /\ socket_pool[s].type = "STREAM"
          /\ socket_pool[s].state = "ESTABLISHED"}
  ELSE {}

\* The step put one frame behind those in the queue of s: the frame it
\* brought.
Enqueued(s) ==
  /\ Len(socket_pool'[s].rx_queue) = Len(socket_pool[s].rx_queue) + 1
  /\ SubSeq(socket_pool'[s].rx_queue, 1, Len(socket_pool[s].rx_queue))
       = socket_pool[s].rx_queue
  /\ socket_pool'[s].rx_queue[Len(socket_pool'[s].rx_queue)].p0
       = thr'[1].seq0

\* C30: for a stream socket in ESTABLISHED, a data frame whose sequence
\* byte is rx_expected_seq adds 1 modulo 256 to rx_expected_seq, has one
\* ACK sent and is put on the receive queue; a data frame with another
\* sequence byte has one ACK sent, goes back to the pool, and leaves
\* rx_expected_seq and the receive queue as they were.
C30_DataFrame ==
  [][\A s \in DataTarget :
       IF thr'[1].seq0 = socket_pool[s].rx_expected_seq
       THEN /\ socket_pool'[s].rx_expected_seq
                = (socket_pool[s].rx_expected_seq + 1) % SEQ_MODULUS
            /\ txlog' = << "ACK" >>
            /\ Enqueued(s)
       ELSE /\ txlog' = << "ACK" >>
            /\ danp_buffer_get_free_count(packet_free_map')
                 = danp_buffer_get_free_count(packet_free_map)
            /\ socket_pool'[s].rx_expected_seq
                 = socket_pool[s].rx_expected_seq
            /\ socket_pool'[s].rx_queue = socket_pool[s].rx_queue]_vars

\* The same while the receive queue of the socket has room and the pool
\* has a record for the frame and one for the ACK.
C30_DataFrameWithRoom ==
  [][\A s \in DataTarget :
       (Len(socket_pool[s].rx_queue) < RX_QUEUE_DEPTH
          /\ danp_buffer_get_free_count(packet_free_map) >= 2) =>
       IF thr'[1].seq0 = socket_pool[s].rx_expected_seq
       THEN /\ socket_pool'[s].rx_expected_seq
                = (socket_pool[s].rx_expected_seq + 1) % SEQ_MODULUS
            /\ txlog' = << "ACK" >>
            /\ Enqueued(s)
       ELSE /\ txlog' = << "ACK" >>
            /\ danp_buffer_get_free_count(packet_free_map')
                 = danp_buffer_get_free_count(packet_free_map)
            /\ socket_pool'[s].rx_expected_seq
                 = socket_pool[s].rx_expected_seq
            /\ socket_pool'[s].rx_queue = socket_pool[s].rx_queue]_vars

(***************************************************************************)
(* A SYN for a connected stream socket.                                    *)
(***************************************************************************)
\* The connected stream socket that the SYN-flagged frame of this step is
\* for, as a set: empty when the step brings no such frame.
ResyncTarget ==
  IF /\ InputStep
     /\ thr'[1].pre
     /\ thr'[1].len >= 0
     /\ danpUnpackHeader(thr'[1].data).dst = LOCAL_NODE
     /\ HasFlag(danpUnpackHeader(thr'[1].data).flags, DANP_FLAG_SYN)
  THEN {s \in {danp_find_socket(Kern, danpUnpackHeader(thr'[1].data).dst_port,
                                danpUnpackHeader(thr'[1].data).src,
                                danpUnpackHeader(thr'[1].data).src_port)} :
          /\ s # NULL
          /\ socket_pool[s].type = "STREAM"
          /\ socket_pool[s].state \in {"ESTABLISHED", "SYN_RECEIVED"}}
  ELSE {}

\* The step of the dispatcher started the sequence numbers of s again,
\* gave the packets of its receive queue and the inbound packet back to
\* the pool and left s in SYN_RECEIVED.
Resynced(s) ==
  /\ socket_pool'[s].tx_seq = 0
  /\ socket_pool'[s].rx_expected_seq = 0
  /\ socket_pool'[s].rx_queue = << >>
  /\ \A i \in DOMAIN socket_pool[s].rx_queue :
       packet_free_map'[socket_pool[s].rx_queue[i].idx]
  /\ danp_buffer_get_free_count(packet_free_map')
       = danp_buffer_get_free_count(packet_free_map)
         + Len(socket_pool[s].rx_queue)
  /\ socket_pool'[s].state = "SYN_RECEIVED"

\* C31: a frame with SYN set that arrives for a stream socket in
\* ESTABLISHED or SYN_RECEIVED sets tx_seq and rx_expected_seq to 0, empties
\* the receive queue giving every queued packet back to the pool, emits
\* exactly one SYN|ACK, frees the inbound packet and leaves the socket in
\* SYN_RECEIVED.
C31_SynResyncs ==
  [][\A s \in ResyncTarget : Resynced(s) /\ txlog' = << "SYNACK" >>]_vars

\* C31 as the code has it: the SYN|ACK is emitted when the pool has a record
\* for it once the inbound packet is taken and the queue is given back, and
\* no frame is emitted otherwise.
C31_SynResyncsWithBuffer ==
  [][\A s \in ResyncTarget :
       /\ Resynced(s)
       /\ txlog' = IF danp_buffer_get_free_count(packet_free_map)
                        + Len(socket_pool[s].rx_queue) >= 2
                   THEN << "SYNACK" >> ELSE << >>]_vars

\* A SYN came for the accepted child while ten payloads waited in its
\* queue: the queue is empty, its ten records are free again, the child is in
\* SYN_RECEIVED and one SYN|ACK went out.
C31_Witness ==
  /\ thr[1].op = "input"
  /\ thr[1].pre
  /\ thr[1].data = danpPackHeader(0, LOCAL_NODE, LOCAL_NODE, SERVER_PORT,
                                  CLIENT_PORT, DANP_FLAG_SYN)
  /\ ctr.ext = 1
  /\ txlog = << "SYNACK" >>
  /\ \E s \in Slots :
       /\ socket_pool[s].state = "SYN_RECEIVED"
       /\ socket_pool[s].local_port = SERVER_PORT
       /\ socket_pool[s].rx_queue = << >>
       /\ socket_pool[s].rx_expected_seq = 0
       /\ ghost[s].resync
  /\ danp_buffer_get_free_count(packet_free_map) = RX_QUEUE_DEPTH + 1

(***************************************************************************)
(* The accept queue of a listener.  SYNs of the far node, each from a port *)
(* of its own, reach the server of the tests while the application accepts *)
(* some of the children or none.                                           *)
(***************************************************************************)
\* Frames arriving in one run, and the calls to accept.
MaxAcceptExt == 7
MaxAcceptCalls == 2

\* The n-th frame of the far node comes from the n-th port after FAR_PORT.
AcceptFrame(n, flags) ==
  [hdr |-> danpPackHeader(0, LOCAL_NODE, REMOTE_NODE, SERVER_PORT,
                          FAR_PORT + n, flags),
   len |-> IF flags = DANP_FLAG_ACK THEN 1 ELSE 0, p0 |-> 0, body |-> 0]

InitAccept ==
  /\ socket_pool = Served.sp
  /\ socket_list = Served.sl
  /\ next_ephemeral_port = Served.nep
  /\ packet_free_map = Served.fm
  /\ link = EmptyLink
  /\ txlog = << >>
  /\ ghost = Served.gh
  /\ sync = FALSE
  /\ thr = [t \in Threads |-> IdleThread]
  /\ held = [i \in Slots |-> IF i = Served.ret THEN 1 ELSE 0]
  /\ app_pkts = {}
  /\ packet_next = [i \in PoolIdx |-> NULL]
  /\ route_table = TestRoutes
  /\ ctr = [ZeroCtr EXCEPT !.cap = MaxAcceptCalls, !.extcap = MaxAcceptExt]

NextAccept ==
  \/ \E fl \in {DANP_FLAG_SYN, DANP_FLAG_ACK} :
        InputCall(AcceptFrame(ctr.ext, fl))
  \/ \E s \in Slots : AcceptCall(1, s)

SpecAccept == InitAccept /\ [][NextAccept]_vars

\* The listener whose accept queue is full and that the SYN of this step is
\* for, as a set: empty when the step brings no such frame.
FullListener ==
  IF /\ InputStep
     /\ thr'[1].pre
     /\ thr'[1].len >= 0
     /\ danpUnpackHeader(thr'[1].data).dst = LOCAL_NODE
     /\ danpUnpackHeader(thr'[1].data).flags = DANP_FLAG_SYN
  THEN {s \in {danp_find_socket(Kern, danpUnpackHeader(thr'[1].data).dst_port,
                                danpUnpackHeader(thr'[1].data).src,
                                danpUnpackHeader(thr'[1].data).src_port)} :
          /\ s # NULL
          /\ socket_pool[s].state = "LISTENING"
          /\ Len(socket_pool[s].accept_queue) = ACCEPT_QUEUE_DEPTH}
  ELSE {}

\* C32: a SYN for a LISTENING socket whose accept queue is full establishes
\* nothing: every slot that was CLOSED, the spawned child among them, is
\* CLOSED with local_port 0 afterwards, no frame is emitted, the inbound
\* packet is back in the pool, and the listener stays LISTENING with its
\* accept queue unchanged.
C32_FullAcceptQueue ==
  [][\A s \in FullListener :
       /\ \A i \in Slots :
            socket_pool[i].state = "CLOSED"
            => /\ socket_pool'[i].state = "CLOSED"
               /\ socket_pool'[i].local_port = 0
       /\ \A i \in Slots :
            socket_pool[i].state # "CLOSED"
            => socket_pool'[i].state = socket_pool[i].state
       /\ txlog' = << >>
       /\ packet_free_map' = packet_free_map
       /\ socket_pool'[s].state = "LISTENING"
       /\ socket_pool'[s].accept_queue = socket_pool[s].accept_queue]_vars

\* Six SYNs came and no child was accepted: five children wait in the
\* accept queue, the slot spawned for the sixth SYN is CLOSED with port 0,
\* and nothing was emitted for it.
C32_Witness ==
  /\ thr[1].op = "input"
  /\ thr[1].data = danpPackHeader(0, LOCAL_NODE, REMOTE_NODE, SERVER_PORT,
                                  FAR_PORT + ACCEPT_QUEUE_DEPTH, DANP_FLAG_SYN)
  /\ txlog = << >>
  /\ Len(socket_pool[Served.ret].accept_queue) = ACCEPT_QUEUE_DEPTH
  /\ Cardinality({i \in Slots : socket_pool[i].state = "SYN_RECEIVED"})
       = ACCEPT_QUEUE_DEPTH
  /\ \E i \in Slots :
       /\ socket_pool[i].state = "CLOSED"
       /\ socket_pool[i].local_port = 0
       /\ socket_pool[i].remote_port = FAR_PORT + ACCEPT_QUEUE_DEPTH
  /\ danp_buffer_get_free_count(packet_free_map) = DANP_POOL_SIZE

(***************************************************************************)
(* What a successful stream send says of the peer.                         *)
(***************************************************************************)
\* C33: when send on a stream socket has returned success, the peer's
\* dispatcher has accepted the data frame of that call (its sequence byte
\* was the peer's rx_expected_seq) and put it on the peer's receive queue.
C33_SuccessMeansAccepted ==
  \A t \in Threads :
    ( /\ Idle(t)
      /\ thr[t].op = "send"
      /\ thr[t].ret > 0
      /\ socket_pool[thr[t].sock].type = "STREAM" )
    => \E d \in {CHOOSE d \in Slots : held[d] = 2} :
         \E j \in DOMAIN ghost[d].acc : ghost[d].acc[j] = thr[t].data

(***************************************************************************)
(* What a successful connect says of the handshake.  The client of the     *)
(* tests connects to their server over the queueing loopback, so that the  *)
(* ingress thread runs between the steps of connect; a connect that timed  *)
(* out may be called again, and the link may duplicate a frame.            *)
(***************************************************************************)
\* Calls to connect in one run.
MaxRaceCalls == 2

\* The server of the tests and their client, bound and not yet connected.
RaceStart ==
  With(danp_socket(Served, "STREAM"), LAMBDA A :
    [K |-> danp_bind(A, A.ret, CLIENT_PORT), srv |-> Served.ret,
     cli |-> A.ret])

InitRace ==
  \E H \in {RaceStart} :
    /\ socket_pool = H.K.sp
    /\ socket_list = H.K.sl
    /\ next_ephemeral_port = H.K.nep
    /\ packet_free_map = H.K.fm
    /\ link = EmptyLink
    /\ txlog = << >>
    /\ ghost = H.K.gh
    /\ sync = FALSE
    /\ thr = [t \in Threads |-> IdleThread]
    /\ held = [i \in Slots |-> IF i = H.cli THEN 1 ELSE 0]
    /\ app_pkts = {}
    /\ packet_next = [i \in PoolIdx |-> NULL]
    /\ route_table = TestRoutes
    /\ ctr = [ZeroCtr EXCEPT !.cap = MaxRaceCalls]

NextRace ==
  \/ \E s \in Slots : ConnectCall(1, s, LOCAL_NODE, SERVER_PORT)
  \/ ConnectWake(1)
  \/ ConnectTimeout(1)
  \/ ConnectRevert(1)
  \/ Deliver
  \/ \E i \in DOMAIN link : Duplicate(i)

SpecRace == InitRace /\ [][NextRace]_vars

\* C34: when connect on a stream socket has returned success, a SYN|ACK
\* answering the SYN of that call was processed during the call and set the
\* socket to ESTABLISHED (the dispatcher took the socket from SYN_SENT to
\* ESTABLISHED after the call began).
C34_ConnectMeansSynAck ==
  \A t \in Threads :
    ( /\ Idle(t)
      /\ thr[t].op = "connect"
      /\ thr[t].ret = 0
      /\ socket_pool[thr[t].sock].type = "STREAM" )
    => ghost[thr[t].sock].synack

(***************************************************************************)
(* Where the records of the pool are between calls.                        *)
(***************************************************************************)
\* The places of the receive queues that hold record i.
QueuedAt(i) ==
  {<<s, n>> \in Slots \X (1 .. RX_QUEUE_DEPTH) :
     /\ n <= Len(socket_pool[s].rx_queue)
     /\ socket_pool[s].rx_queue[n].idx = i}

\* C35: while no call is in progress, each pool record is either free, or
\* on exactly one socket's receive queue, or held by the application.
C35_NoRecordLost ==
  (\A t \in Threads : Idle(t))
  => \A i \in PoolIdx :
       \/ packet_free_map[i] /\ i \notin app_pkts /\ QueuedAt(i) = {}
       \/ ~ packet_free_map[i] /\ i \in app_pkts /\ QueuedAt(i) = {}
       \/ ~ packet_free_map[i] /\ i \notin app_pkts
            /\ Cardinality(QueuedAt(i)) = 1

(***************************************************************************)
(* Slots the application holds.                                            *)
(***************************************************************************)
\* C36: a slot that socket() or accept() returned to the application and
\* that the application has not closed is not returned by socket() again
\* and is not made the child of a listener.
C36_NoReuseWhileHeld ==
  [][\A s \in Slots :
       held[s] > 0
       => /\ ~ \E t \in Threads :
                 /\ ctr'.calls = ctr.calls + 1
                 /\ thr'[t].op = "socket"
                 /\ thr'[t].ret = s
          /\ ~ ( /\ socket_pool[s].state = "CLOSED"
                 /\ socket_pool'[s].state = "SYN_RECEIVED" )]_vars

(***************************************************************************)
(* Which sockets a frame of the far node closes.                           *)
(***************************************************************************)
\* C37: a frame of the far node closes only a stream socket that is in
\* SYN_SENT, SYN_RECEIVED or ESTABLISHED and whose remote node and port are
\* the frame's source, and a socket in LISTENING stays LISTENING with its
\* local port whatever frame arrives.
C37_RstClosesOnlyPeer ==
  [][ctr'.ext = ctr.ext + 1
     => \A s \in Slots :
          /\ ( /\ socket_pool[s].state # "CLOSED"
               /\ socket_pool'[s].state = "CLOSED" )
             => /\ socket_pool[s].type = "STREAM"
                /\ socket_pool[s].state
                     \in {"SYN_SENT", "SYN_RECEIVED", "ESTABLISHED"}
                /\ socket_pool[s].remote_node = REMOTE_NODE
                /\ socket_pool[s].remote_port = FAR_PORT
          /\ socket_pool[s].state = "LISTENING"
             => /\ socket_pool'[s].state = "LISTENING"
                /\ socket_pool'[s].local_port = socket_pool[s].local_port]_vars

(***************************************************************************)
(* A duplicate of a handshake frame on the established connection.  One    *)
(* frame reaches danp_input, the application makes no call, and the        *)
(* loopback's receive thread delivers every frame it is given.             *)
(***************************************************************************)
\* Frames given to danp_input in one run.
MaxDupExt == 1

InitDup == InputInit(MaxDupExt)

SpecDup == InitDup /\ [][NextInput]_vars /\ WF_vars(Deliver)

\* The frame that came in is the client's SYN or the server's SYN|ACK, and
\* the pool had records for it and for the answer.
DupArrived ==
  /\ ctr.ext = 1
  /\ thr[1].op = "input"
  /\ thr[1].pre
  /\ thr[1].len = 0
  /\ thr[1].data
       \in {danpPackHeader(0, LOCAL_NODE, LOCAL_NODE, SERVER_PORT,
                           CLIENT_PORT, DANP_FLAG_SYN),
            danpPackHeader(0, LOCAL_NODE, LOCAL_NODE, CLIENT_PORT,
                           SERVER_PORT, DANP_FLAG_SYN + DANP_FLAG_ACK)}
  /\ danp_buffer_get_free_count(packet_free_map) >= 2

\* No frame is in flight and both ends of the connection are ESTABLISHED.
Settled ==
  /\ link = EmptyLink
  /\ Cardinality({s \in Slots : socket_pool[s].state = "ESTABLISHED"}) = 2

\* C38: when a duplicate of the SYN or of the SYN|ACK has reached an end of
\* the established connection, the exchange of control frames it starts
\* comes to an end and both ends are ESTABLISHED again.
C38_ResyncSettles == DupArrived ~> Settled

(***************************************************************************)
(* The sequence counters of the two ends.                                  *)
(***************************************************************************)
\* C40: on the established connection, while no frame is in flight and no
\* send is in progress, the tx_seq of each end is the rx_expected_seq of the
\* other (stated for the runs in which every send so far has returned
\* success).
C40_SeqAgree ==
  \A c, d \in Slots :
    ( /\ held[c] = 1 /\ held[d] = 2
      /\ \A t \in Threads : thr[t].op = "send" => Idle(t)
      /\ link = EmptyLink
      /\ socket_pool[c].state = "ESTABLISHED"
      /\ socket_pool[d].state = "ESTABLISHED"
      /\ ctr.sends = Len(ghost[c].sent) )
    => /\ socket_pool[c].tx_seq = socket_pool[d].rx_expected_seq
       /\ socket_pool[d].tx_seq = socket_pool[c].rx_expected_seq

(***************************************************************************)
(* Re-initialization: danp_socket_init called while sockets are open and   *)
(* bound.                                                                  *)
(***************************************************************************)
\* danp_socket_init: the value returned and the table it leaves.  nomutex
\* tells that the mutex could not be created.
danp_socket_init(K, nomutex) ==
  IF nomutex THEN [K EXCEPT !.ret = -1]
  ELSE [K EXCEPT !.sp = [i \in Slots |-> [K.sp[i] EXCEPT !.state = "CLOSED",
                                                        !.next = NULL]],
                 !.sl = NULL,
                 !.ret = 0]

SocketInitCall(t, nomutex) ==
  /\ Idle(t)
  /\ ctr.calls < ctr.cap
  /\ \E K \in {danp_socket_init(Begin, nomutex)} :
        /\ Commit(K)
        /\ thr' = [thr EXCEPT ![t] = Done(t, "socket_init", NULL, K.ret)]
  /\ Bump("calls")
  /\ UNCHANGED << held, app_pkts, packet_next, route_table >>

InitReinit ==
  /\ InitCommon
  /\ sync = TRUE

NextReinit ==
  \/ \E ty \in {"STREAM", "DGRAM"} : SocketCall(1, ty)
  \/ \E s \in Slots, p \in {0, SERVER_PORT} : BindCall(1, s, p)
  \/ \E s \in Slots : CloseCall(1, s)
  \/ \E nomutex \in BOOLEAN : SocketInitCall(1, nomutex)

SpecReinit == InitReinit /\ [][NextReinit]_vars

\* The slots socket() may take.
FreeSlots(sp) == {i \in Slots : sp[i].state = "CLOSED" /\ sp[i].local_port = 0}

\* C25: after socket_init, whenever it is called, every slot is CLOSED
\* with local_port 0 and the active list is empty, so that socket() has
\* all the DANP_MAX_SOCKET_COUNT slots to take.
C25_InitClearsSlots ==
  (thr[1].op = "socket_init" /\ thr[1].ret = 0)
    => /\ \A s \in Slots : /\ socket_pool[s].state = "CLOSED"
                            /\ socket_pool[s].local_port = 0
       /\ socket_list = NULL
       /\ Cardinality(FreeSlots(socket_pool)) = DANP_MAX_SOCKET_COUNT

(***************************************************************************)
(* Zero-copy transmit: the application hands pool records it holds to      *)
(* danp_send_packet and danp_send_packet_to.  The sockets are those of an  *)
(* established connection, its listener, an unconnected stream socket and  *)
(* a bound datagram socket.                                                *)
(***************************************************************************)
MaxZcCalls == 2
ZC_PORT == 55
\* A node the routing table of the tests has no entry for.
NO_ROUTE_NODE == OTHER_NODE

\* danp_route_tx returns 0 for this frame.
RouteTxOk(K, frame) ==
  /\ danp_route_lookup(K, danpUnpackHeader(frame.hdr).dst) # "none"
  /\ frame.len + DANP_HEADER_SIZE <= IFACE_MTU

\* The record goes back to the pool once the frame is routed or refused.
ZcTransmit(K, frame, idx) ==
  IF RouteTxOk(K, frame)
  THEN [danp_route_tx(K, frame) EXCEPT !.fm = danp_buffer_free(@, idx),
                                       !.ret = 0]
  ELSE [K EXCEPT !.fm = danp_buffer_free(@, idx), !.ret = -1]

\* danp_send_packet for a socket and a record that are not null.
danp_send_packet(K0, s, pkt) ==
  With(K0, LAMBDA K :
    LET sock == K.sp[s]
        frame == [hdr |-> danpPackHeader(DANP_PRIORITY_NORMAL,
                                         sock.remote_node, sock.local_node,
                                         sock.remote_port, sock.local_port,
                                         DANP_FLAG_NONE),
                  len |-> pkt.len, p0 |-> pkt.p0, body |-> pkt.body]
    IN IF sock.type # "DGRAM" /\ sock.state # "ESTABLISHED"
       THEN [K EXCEPT !.ret = -1]
       ELSE ZcTransmit(K, frame, pkt.idx))

\* danp_send_packet_to for a socket and a record that are not null.
danp_send_packet_to(K0, s, pkt, dst_node, dst_port) ==
  With(K0, LAMBDA K :
    LET sock == K.sp[s]
        frame == [hdr |-> danpPackHeader(DANP_PRIORITY_NORMAL, dst_node,
                                         sock.local_node, dst_port,
                                         sock.local_port, DANP_FLAG_NONE),
                  len |-> pkt.len, p0 |-> pkt.p0, body |-> pkt.body]
    IN IF sock.type # "DGRAM"
       THEN [K EXCEPT !.fm = danp_buffer_free(@, pkt.idx), !.ret = -1]
       ELSE ZcTransmit(K, frame, pkt.idx))

\* The record the application filled with len bytes.
ZcPacket(idx, len) ==
  [idx |-> idx, hdr |-> << 0, 0, 0, 0 >>, len |-> len, p0 |-> 0,
   body |-> PAYLOAD_BASE]

\* tx keeps the record handed over, len its length.
ZcFrame(t, op, s, idx, len, K) ==
  /\ Commit(K)
  /\ thr' = [thr EXCEPT ![t] = [Done(t, op, s, K.ret) EXCEPT
                                  !.tx = idx, !.len = len]]
  /\ app_pkts' = app_pkts \ {idx}
  /\ Bump("calls")
  /\ UNCHANGED << held, packet_next, route_table >>

SendPacketCall(t, s, idx, len) ==
  /\ Idle(t)
  /\ ctr.calls < ctr.cap
  /\ held[s] = t
  /\ idx \in app_pkts
  /\ \E K \in {danp_send_packet(Begin, s, ZcPacket(idx, len))} :
        ZcFrame(t, "send_packet", s, idx, len, K)

SendPacketToCall(t, s, idx, len, dst_node, dst_port) ==
  /\ Idle(t)
  /\ ctr.calls < ctr.cap
  /\ held[s] = t
  /\ idx \in app_pkts
  /\ \E K \in {danp_send_packet_to(Begin, s, ZcPacket(idx, len), dst_node,
                                   dst_port)} :
        ZcFrame(t, "send_packet_to", s, idx, len, K)

\* The connection of the tests, a datagram socket bound to ZC_PORT and a
\* stream socket just opened.
ZcStart ==
  With(Handshaken, LAMBDA H :
    LET D == danp_socket(H.K, "DGRAM")
        D1 == danp_bind(D, D.ret, ZC_PORT)
    IN [danp_socket(D1, "STREAM") EXCEPT !.txlog = << >>])

\* The application holds the records with indexes below MaxZcCalls.
InitZc ==
  \E K \in {ZcStart} :
    /\ socket_pool = K.sp
    /\ socket_list = K.sl
    /\ next_ephemeral_port = K.nep
    /\ app_pkts = {i \in PoolIdx :
                     K.fm[i] /\ Cardinality({j \in 0..i : K.fm[j]})
                                  <= MaxZcCalls}
    /\ packet_free_map = [i \in PoolIdx |-> K.fm[i] /\ i \notin app_pkts]
    /\ link = EmptyLink
    /\ txlog = << >>
    /\ ghost = K.gh
    /\ sync = TRUE
    /\ thr = [t \in Threads |-> IdleThread]
    /\ held = [i \in Slots |-> IF K.sp[i].state # "CLOSED" THEN 1 ELSE 0]
    /\ packet_next = [i \in PoolIdx |-> NULL]
    /\ route_table = TestRoutes
    /\ ctr = [ZeroCtr EXCEPT !.cap = MaxZcCalls]

ZcLens == {1, IFACE_MTU - DANP_HEADER_SIZE, IFACE_MTU - DANP_HEADER_SIZE + 1}

NextZc ==
  \/ \E s \in Slots, idx \in PoolIdx, len \in ZcLens :
       SendPacketCall(1, s, idx, len)
  \/ \E s \in Slots, idx \in PoolIdx, len \in ZcLens,
        dst_node \in {LOCAL_NODE, NO_ROUTE_NODE},
        dst_port \in {ZC_PORT, SERVER_PORT} :
       SendPacketToCall(1, s, idx, len, dst_node, dst_port)

SpecZc == InitZc /\ [][NextZc]_vars

\* This step is a call of danp_send_packet or danp_send_packet_to.
ZcStep ==
  /\ ctr'.calls = ctr.calls + 1
  /\ thr'[1].op \in {"send_packet", "send_packet_to"}

\* C29: whatever danp_send_packet or danp_send_packet_to returns for a
\* socket and a packet that are not null, the packet is back in the pool
\* when the call returns.
C29_SendPacketOwns ==
  [][ZcStep => packet_free_map'[thr'[1].tx]]_vars

\* The same for danp_send_packet_to alone.
C29_SendPacketToOwns ==
  [][(ZcStep /\ thr'[1].op = "send_packet_to")
     => packet_free_map'[thr'[1].tx]]_vars

(***************************************************************************)
(* The fragmentation sublayer over the synchronous loopback: send_sfp      *)
(* sends one fragment per step, recv_sfp takes what the queue holds.       *)
(***************************************************************************)
MaxSfpCalls == 2
DANP_SFP_MAX_DATA_PER_FRAGMENT == DANP_MAX_PACKET_SIZE - DANP_HEADER_SIZE - 1
DANP_SFP_MAX_FRAGMENTS == 255
DANP_SFP_FLAG_MORE == 128
DANP_SFP_FLAG_BEGIN == 64
UINT8_MODULUS == SEQ_MODULUS

danp_sfp_pack_header(is_begin, has_more, fragment_id) ==
  (fragment_id % 64) + (IF is_begin THEN DANP_SFP_FLAG_BEGIN ELSE 0)
                     + (IF has_more THEN DANP_SFP_FLAG_MORE ELSE 0)

danp_sfp_unpack_header(header) ==
  [fragment_id |-> header % 64,
   is_begin |-> (header \div DANP_SFP_FLAG_BEGIN) % 2 = 1,
   has_more |-> (header \div DANP_SFP_FLAG_MORE) % 2 = 1]

\* The data bytes a fragment carries: chunk bytes from offset on.
SfpBody(offset, chunk) == offset * DANP_MAX_PACKET_SIZE + chunk

\* The checks danp_send_sfp makes before the loop: 0 when they pass.
SfpRefusal(K, s, len) ==
  IF len = 0 THEN -1
  ELSE IF K.sp[s].type = "DGRAM" THEN -22
  ELSE IF K.sp[s].state # "ESTABLISHED" THEN -1
  ELSE IF (len + DANP_SFP_MAX_DATA_PER_FRAGMENT - 1)
             \div DANP_SFP_MAX_DATA_PER_FRAGMENT > DANP_SFP_MAX_FRAGMENTS
  THEN -1
  ELSE 0

\* One round of the loop of danp_send_sfp: ret is 0 when the fragment went
\* out, header is the SFP header it carries.
SfpFragment(K0, s, len, offset, fragment_id) ==
  With(K0, LAMBDA K :
    LET g == danp_buffer_get(K.fm)
        sock == K.sp[s]
        chunk_size == IF len - offset > DANP_SFP_MAX_DATA_PER_FRAGMENT
                      THEN DANP_SFP_MAX_DATA_PER_FRAGMENT ELSE len - offset
        header == danp_sfp_pack_header(fragment_id = 0,
                                       offset + chunk_size < len, fragment_id)
        frame == [hdr |-> danpPackHeader(DANP_PRIORITY_NORMAL,
                                         sock.remote_node, sock.local_node,
                                         sock.remote_port, sock.local_port,
                                         DANP_FLAG_NONE),
                  len |-> chunk_size + 1, p0 |-> header,
                  body |-> SfpBody(offset, chunk_size)]
    IN IF g.pkt = NULL THEN [K |-> [K EXCEPT !.ret = -12], header |-> header]
       ELSE [K |-> ZcTransmit([K EXCEPT !.fm = g.fm], frame, g.pkt),
             header |-> header])

\* len is the length of the message, tick the offset, retries the
\* fragment counter.
SendSfpCall(t, s, len) ==
  /\ Idle(t)
  /\ ctr.calls < ctr.cap
  /\ held[s] = t
  /\ Commit(Begin)
  /\ thr' = [thr EXCEPT ![t] =
               IF SfpRefusal(Kern, s, len) # 0
               THEN [Done(t, "send_sfp", s, SfpRefusal(Kern, s, len)) EXCEPT
                       !.len = len]
               ELSE [IdleThread EXCEPT !.pc = "sfp", !.op = "send_sfp",
                                       !.sock = s, !.len = len]]
  /\ Bump("calls")
  /\ UNCHANGED << held, app_pkts, packet_next, route_table >>

\* seq0 keeps the SFP header of the fragment of this step, tx its place in
\* the message.
SendSfpFragment(t) ==
  /\ thr[t].pc = "sfp"
  /\ \E F \in {SfpFragment(Begin, thr[t].sock, thr[t].len, thr[t].tick,
                            thr[t].retries)} :
     \E chunk \in {IF thr[t].len - thr[t].tick > DANP_SFP_MAX_DATA_PER_FRAGMENT
                   THEN DANP_SFP_MAX_DATA_PER_FRAGMENT
                   ELSE thr[t].len - thr[t].tick} :
        /\ Commit(F.K)
        /\ thr' = [thr EXCEPT ![t] =
                     IF F.K.ret < 0
                     THEN [Done(t, "send_sfp", thr[t].sock,
                                IF F.K.ret = -1 THEN -5 ELSE F.K.ret) EXCEPT
                             !.len = thr[t].len, !.tick = thr[t].tick,
                             !.retries = thr[t].retries]
                     ELSE [thr[t] EXCEPT
                             !.pc = IF thr[t].tick + chunk = thr[t].len
                                    THEN "idle" ELSE "sfp",
                             !.ret = IF thr[t].tick + chunk = thr[t].len
                                     THEN thr[t].len ELSE 0,
                             !.tick = @ + chunk,
                             !.tx = thr[t].retries,
                             !.seq0 = F.header,
                             !.retries = (@ + 1) % UINT8_MODULUS]]
  /\ UNCHANGED << held, app_pkts, packet_next, route_table, ctr >>

\* The reassembly loop of danp_recv_sfp on a stream socket: chain is the
\* chain so far.  The call comes back empty-handed when the queue has
\* nothing more for it.
RECURSIVE SfpReassemble(_, _, _, _)
SfpReassemble(K, s, chain, expected_fragment_id) ==
  IF K.sp[s].rx_queue = << >> \/ Head(K.sp[s].rx_queue).idx = NULL
  THEN [K |-> [K EXCEPT !.sp[s].rx_queue =
                           IF @ = << >> THEN @ ELSE Tail(@),
                        !.fm = FreeQueued(@, chain)],
        chain |-> << >>, ok |-> FALSE]
  ELSE
    LET pkt == Head(K.sp[s].rx_queue)
        h == danp_sfp_unpack_header(pkt.p0)
        K1 == [K EXCEPT !.sp[s].rx_queue = Tail(@)]
        stripped == [pkt EXCEPT !.len = @ - 1]
    IN IF h.fragment_id # expected_fragment_id
       THEN [K |-> [K1 EXCEPT !.fm = FreeQueued(danp_buffer_free(@, pkt.idx),
                                                chain)],
             chain |-> << >>, ok |-> FALSE]
       ELSE IF h.has_more
       THEN SfpReassemble(K1, s, Append(chain, stripped),
                          (expected_fragment_id + 1) % UINT8_MODULUS)
       ELSE [K |-> K1, chain |-> Append(chain, stripped), ok |-> TRUE]

\* danp_recv_sfp for a socket that is not null.
danp_recv_sfp(K, s) ==
  IF K.sp[s].type = "DGRAM" THEN [K |-> K, chain |-> << >>, ok |-> FALSE]
  ELSE SfpReassemble(K, s, << >>, 0)

\* ret is the number of packets of the chain (NULL: no chain), data what
\* the packets carry.
RecvSfpCall(t, s) ==
  /\ Idle(t)
  /\ ctr.calls < ctr.cap
  /\ held[s] = t
  /\ \E R \in {danp_recv_sfp(Begin, s)} :
        /\ Commit(R.K)
        /\ thr' = [thr EXCEPT ![t] =
                     [Done(t, "recv_sfp", s,
                           IF R.ok THEN Len(R.chain) ELSE NULL) EXCEPT
                        !.data = [i \in DOMAIN R.chain |->
                                    [len |-> R.chain[i].len,
                                     body |-> R.chain[i].body]]]]
        /\ app_pkts' = app_pkts \cup {R.chain[i].idx : i \in DOMAIN R.chain}
  /\ Bump("calls")
  /\ UNCHANGED << held, packet_next, route_table >>

\* Each end of the connection has sent done payloads that the other has
\* received.
InitSfp ==
  \E K \in {ZcStart}, done \in {0, DANP_SFP_FLAG_BEGIN} :
    /\ socket_pool = [i \in Slots |->
                        IF K.sp[i].state = "ESTABLISHED"
                        THEN [K.sp[i] EXCEPT !.tx_seq = done,
                                             !.rx_expected_seq = done]
                        ELSE K.sp[i]]
    /\ socket_list = K.sl
    /\ next_ephemeral_port = K.nep
    /\ packet_free_map = K.fm
    /\ app_pkts = {}
    /\ link = EmptyLink
    /\ txlog = << >>
    /\ ghost = K.gh
    /\ sync = TRUE
    /\ thr = [t \in Threads |-> IdleThread]
    /\ held = [i \in Slots |-> IF K.sp[i].state # "CLOSED" THEN 1 ELSE 0]
    /\ packet_next = [i \in PoolIdx |-> NULL]
    /\ route_table = TestRoutes
    /\ ctr = [ZeroCtr EXCEPT !.cap = MaxSfpCalls]

SfpLens ==
  {0, 1, DANP_SFP_MAX_DATA_PER_FRAGMENT, DANP_SFP_MAX_DATA_PER_FRAGMENT + 1,
   64 * DANP_SFP_MAX_DATA_PER_FRAGMENT + 1,
   DANP_SFP_MAX_FRAGMENTS * DANP_SFP_MAX_DATA_PER_FRAGMENT,
   DANP_SFP_MAX_FRAGMENTS * DANP_SFP_MAX_DATA_PER_FRAGMENT + 1}

NextSfp ==
  \/ \E s \in Slots, len \in SfpLens : SendSfpCall(1, s, len)
  \/ SendSfpFragment(1)
  \/ \E s \in Slots : RecvSfpCall(1, s)

SpecSfp == InitSfp /\ [][NextSfp]_vars

\* This step sent a fragment of a message that send_sfp accepts.
SfpSent ==
  /\ thr[1].pc = "sfp"
  /\ thr'[1].op = "send_sfp"
  /\ thr'[1].ret >= 0

\* C24: within a message send_sfp accepts, BEGIN is set on fragment 0 and
\* on no other, MORE on every fragment but the last, and the fragment ids
\* in the SFP headers go strictly up.
C24_FragmentHeaders ==
  [][SfpSent
     => \E h \in {danp_sfp_unpack_header(thr'[1].seq0)} :
          /\ h.is_begin <=> thr'[1].tx = 0
          /\ h.has_more <=> thr'[1].tick < thr'[1].len
          /\ thr'[1].tx > 0
               => h.fragment_id
                    > danp_sfp_unpack_header(thr[1].seq0).fragment_id]_vars

\* C24 without the order of the ids: BEGIN on fragment 0 alone, MORE on
\* every fragment but the last.
C24_BeginAndMore ==
  [][SfpSent
     => \E h \in {danp_sfp_unpack_header(thr'[1].seq0)} :
          /\ h.is_begin <=> thr'[1].tx = 0
          /\ h.has_more <=> thr'[1].tick < thr'[1].len]_vars

\* The established stream socket at the other end of s, as a set.
SfpPeer(s) ==
  {p \in Slots : /\ socket_pool[p].state = "ESTABLISHED"
                 /\ socket_pool[p].type = "STREAM"
                 /\ socket_pool[p].local_port = socket_pool[s].remote_port
                 /\ socket_pool[p].remote_port = socket_pool[s].local_port}

\* The chain carries len bytes in pieces that follow one another from
\* offset 0.
RECURSIVE SfpCovers(_, _, _)
SfpCovers(chain, offset, len) ==
  IF chain = << >> THEN offset = len
  ELSE /\ Head(chain).body = SfpBody(offset, Head(chain).len)
       /\ SfpCovers(Tail(chain), offset + Head(chain).len, len)

\* C23: a message of 1 to DANP_SFP_MAX_FRAGMENTS * 123 bytes sent with
\* send_sfp on an established stream connection over a link that hands
\* every frame once and in order to the peer's dispatcher: send_sfp
\* returns the length, and recv_sfp on the peer returns a chain of
\* ceil(length / 123) packets whose stripped payloads, put together, are
\* the bytes sent.
C23_SfpRoundTrip ==
  [][(/\ ctr.calls = 1
      /\ ctr'.calls = 2
      /\ thr[1].op = "send_sfp"
      /\ thr[1].len \in 1..(DANP_SFP_MAX_FRAGMENTS
                               * DANP_SFP_MAX_DATA_PER_FRAGMENT)
      /\ socket_pool[thr[1].sock].state = "ESTABLISHED"
      /\ socket_pool[thr[1].sock].type = "STREAM"
      /\ thr'[1].op = "recv_sfp"
      /\ thr'[1].sock \in SfpPeer(thr[1].sock))
     => /\ thr[1].ret = thr[1].len
        /\ thr'[1].ret = (thr[1].len + DANP_SFP_MAX_DATA_PER_FRAGMENT - 1)
                            \div DANP_SFP_MAX_DATA_PER_FRAGMENT
        /\ SfpCovers(thr'[1].data, 0, thr[1].len)]_vars

(***************************************************************************)
(* The three mutexes of the library and the order in which the code takes  *)
(* them.  A function is the sequence of its lock, unlock and call sites;   *)
(* a thread is a stack of frames over these sequences.  The socket-table   *)
(* mutex is created recursive, the routing and the buffer-pool mutex are   *)
(* not.                                                                    *)
(***************************************************************************)
Mutexes == {"socket", "route", "buffer"}

MutexRecursive(m) == m = "socket"

MaxLockCalls == 3
MaxLockDepth == 2

Lk(m) == [k |-> "lock", a |-> m, b |-> ""]
Ul(m) == [k |-> "unlock", a |-> m, b |-> ""]
CallOf(f) == [k |-> "call", a |-> f, b |-> ""]
MayCall(f) == [k |-> "may", a |-> f, b |-> ""]
EitherCall(f, g) == [k |-> "alt", a |-> f, b |-> g]
MayReturn == [k |-> "brk", a |-> "", b |-> ""]
TxFunc == [k |-> "tx", a |-> "danp_input", b |-> ""]

\* danp_buffer_get, danp_buffer_free: the pool mutex around the scan only.
buffer_locks == << Lk("buffer"), Ul("buffer") >>

\* danp_route_lookup: the routing mutex is released before the interface
\* is returned.
route_lookup_locks == << Lk("route"), Ul("route") >>

route_tx_under_route_lock == << Lk("route"), TxFunc, Ul("route") >>

\* danp_route_tx: lookup, the MTU check, then the interface's tx_func.
route_tx_locks == << CallOf("danp_route_lookup"), MayReturn, TxFunc >>

\* danp_send_control: allocate, transmit, free.
send_control_locks ==
  << CallOf("danp_buffer_get"), MayReturn, CallOf("danp_route_tx"),
     CallOf("danp_buffer_free") >>

\* danp_socket_input_handler: the socket-table mutex is held over the whole
\* dispatch, send_control included.
input_handler_locks ==
  << Lk("socket"), MayCall("danp_send_control"), MayCall("danp_buffer_free"),
     Ul("socket") >>

\* danp_input: allocate, then dispatch or drop.
input_locks ==
  << MayReturn, CallOf("danp_buffer_get"), MayReturn,
     EitherCall("danp_socket_input_handler", "danp_buffer_free") >>

\* danp_close: the socket-table mutex is held over the RST.
close_locks ==
  << Lk("socket"), MayCall("danp_send_control"), Ul("socket") >>

\* danp_send: no mutex of its own.
send_locks ==
  << CallOf("danp_buffer_get"), MayReturn, CallOf("danp_route_tx"),
     CallOf("danp_buffer_free") >>

\* danp_route_table_load: the routing mutex over the whole parse.
table_load_locks == << Lk("route"), Ul("route") >>

LockBody(f) ==
  CASE f = "danp_buffer_get" -> buffer_locks
    [] f = "danp_buffer_free" -> buffer_locks
    [] f = "danp_route_lookup" -> route_lookup_locks
    [] f = "danp_route_tx" -> route_tx_locks
    [] f = "danp_send_control" -> send_control_locks
    [] f = "danp_socket_input_handler" -> input_handler_locks
    [] f = "danp_input" -> input_locks
    [] f = "danp_close" -> close_locks
    [] f = "danp_send" -> send_locks
    [] f = "danp_route_table_load" -> table_load_locks

LockEntries ==
  {"danp_input", "danp_close", "danp_send", "danp_route_table_load",
   "danp_buffer_get", "danp_buffer_free"}

LockFrame(f) == [f |-> f, pc |-> 1]
NoLocks == [m \in Mutexes |-> 0]
LockIdle == [pc |-> "idle", stack |-> << >>, own |-> NoLocks]

Top(t) == thr[t].stack[Len(thr[t].stack)]
Running(t) == Len(thr[t].stack) > 0
AtEnd(t) == Running(t) /\ Top(t).pc > Len(LockBody(Top(t).f))
AtOp(t, k) ==
  /\ Running(t)
  /\ ~AtEnd(t)
  /\ LockBody(Top(t).f)[Top(t).pc].k = k
OpOf(t) == LockBody(Top(t).f)[Top(t).pc]

Holds(t, m) == thr[t].own[m] > 0
\* osal_mutex_lock succeeds on a free mutex, and on a recursive one its own
\* thread holds.
CanLock(t, m) ==
  \A u \in Threads : Holds(u, m) => (u = t /\ MutexRecursive(m))
Waiting(t, m) == AtOp(t, "lock") /\ OpOf(t).a = m /\ ~CanLock(t, m)

Advance(st) == [st EXCEPT ![Len(st)].pc = @ + 1]
Pop(st) == SubSeq(st, 1, Len(st) - 1)

LockRest ==
  UNCHANGED << socket_pool, socket_list, next_ephemeral_port, packet_free_map,
               link, txlog, ghost, sync, held, app_pkts, packet_next,
               route_table >>

LockEnter(t, f) ==
  /\ ~Running(t)
  /\ ctr.calls < ctr.cap
  /\ thr' = [thr EXCEPT ![t].stack = << LockFrame(f) >>, ![t].pc = "run"]
  /\ Bump("calls")
  /\ LockRest

LockAcquire(t) ==
  /\ AtOp(t, "lock")
  /\ CanLock(t, OpOf(t).a)
  /\ thr' = [thr EXCEPT ![t].own[OpOf(t).a] = @ + 1,
                        ![t].stack = Advance(@)]
  /\ UNCHANGED ctr
  /\ LockRest

LockRelease(t) ==
  /\ AtOp(t, "unlock")
  /\ thr' = [thr EXCEPT ![t].own[OpOf(t).a] = @ - 1,
                        ![t].stack = Advance(@)]
  /\ UNCHANGED ctr
  /\ LockRest

LockCall(t) ==
  /\ Running(t)
  /\ ~AtEnd(t)
  /\ \/ /\ OpOf(t).k \in {"call", "may", "alt"}
        /\ thr' = [thr EXCEPT ![t].stack =
                     Append(Advance(@), LockFrame(OpOf(t).a))]
     \/ /\ OpOf(t).k = "alt"
        /\ thr' = [thr EXCEPT ![t].stack =
                     Append(Advance(@), LockFrame(OpOf(t).b))]
  /\ UNCHANGED ctr
  /\ LockRest

LockSkip(t) ==
  /\ \/ AtOp(t, "may")
     \/ AtOp(t, "brk")
  /\ thr' = [thr EXCEPT ![t].stack = Advance(@)]
  /\ UNCHANGED ctr
  /\ LockRest

\* The callbacks the thread is inside of.
Nested(t) ==
  Cardinality({i \in 2..Len(thr[t].stack) : thr[t].stack[i].f = "danp_input"})

\* tx_func: a synchronous loopback driver calls danp_input on the caller's
\* thread; any other driver returns.
LockTx(t) ==
  /\ AtOp(t, "tx")
  /\ \/ /\ Nested(t) < MaxLockDepth
        /\ thr' = [thr EXCEPT ![t].stack =
                     Append(Advance(@), LockFrame(OpOf(t).a))]
     \/ thr' = [thr EXCEPT ![t].stack = Advance(@)]
  /\ UNCHANGED ctr
  /\ LockRest

LockReturn(t) ==
  /\ \/ AtEnd(t)
     \/ AtOp(t, "brk")
  /\ thr' = [thr EXCEPT ![t].stack = Pop(@),
                        ![t].pc = IF Len(thr[t].stack) = 1 THEN "idle"
                                  ELSE "run"]
  /\ UNCHANGED ctr
  /\ LockRest

InitLock ==
  /\ socket_pool = [i \in Slots |-> ZeroSocket]
  /\ socket_list = NULL
  /\ next_ephemeral_port = 1
  /\ packet_free_map = [i \in PoolIdx |-> TRUE]
  /\ link = EmptyLink
  /\ txlog = << >>
  /\ ghost = [i \in Slots |-> ZeroGhost]
  /\ sync = TRUE
  /\ thr = [t \in Threads |-> LockIdle]
  /\ held = [i \in Slots |-> 0]
  /\ app_pkts = {}
  /\ packet_next = [i \in PoolIdx |-> NULL]
  /\ route_table = TestRoutes
  /\ ctr = [ZeroCtr EXCEPT !.cap = MaxLockCalls]

NextLock ==
  \/ \E t \in Threads, f \in LockEntries : LockEnter(t, f)
  \/ \E t \in Threads : LockAcquire(t)
  \/ \E t \in Threads : LockRelease(t)
  \/ \E t \in Threads : LockCall(t)
  \/ \E t \in Threads : LockSkip(t)
  \/ \E t \in Threads : LockTx(t)
  \/ \E t \in Threads : LockReturn(t)

SpecLock == InitLock /\ [][NextLock]_vars

\* A set of threads each of which waits for a mutex that a thread of the
\* set holds.
LockCycle(C) ==
  /\ C # {}
  /\ \A t \in C : \E m \in Mutexes :
       /\ Waiting(t, m)
       /\ \E u \in C : Holds(u, m)

\* A frame of danp_input that a tx_func entered, that is, one below the top
\* of the thread's stack.
InCallback(t) ==
  \E i \in 2..Len(thr[t].stack) : thr[t].stack[i].f = "danp_input"

\* C39: whenever a thread is at the call of an interface's tx_func, and all
\* the time it is inside that callback, it holds neither the routing nor the
\* buffer-pool mutex except the ones the callback chain itself took and
\* gives back; it never waits for a non-recursive mutex it holds itself, and
\* no set of threads waits for each other's mutexes.
C39_NoLockCycle ==
  /\ \A t \in Threads :
       AtOp(t, "tx") => ~Holds(t, "route") /\ ~Holds(t, "buffer")
  /\ \A t \in Threads, m \in Mutexes : ~(Waiting(t, m) /\ Holds(t, m))
  /\ \A C \in SUBSET Threads : ~LockCycle(C)

C39_Witness ==
  \E t, u \in Threads :
    /\ t # u
    /\ AtOp(t, "tx")
    /\ InCallback(t)
    /\ thr[t].own["socket"] >= 2
    /\ Waiting(u, "socket")

====
